---- MODULE Spec2Model ----
(***************************************************************************)
(* State-machine model of the SAM catalog migration scripts of sbnutil:    *)
(*   scripts/migrate_sam_files.py  (file metadata + inline locations,      *)
(*                                  batched source flag updates)           *)
(*   scripts/migrate_sam_users.py  (users, groups, grid subjects)          *)
(*   scripts/migrate_sam_definitions.py (dataset definitions, recursively) *)
(*   scripts/migrate_sam_locations.py   (file locations only)              *)
(* The two catalogs (samweb1 = source, samweb2 = target) are part of the   *)
(* state; every remote call of the scripts is one step. Remote calls       *)
(* succeed, except where the scripts catch the failure themselves: reading *)
(* a file the target does not hold, and adding a grid subject. SpecFaults  *)
(* adds remote calls of migrate_sam_files.py that raise an error, SpecRace *)
(* runs two processes of it at once, SpecHazards has reference cycles and  *)
(* the interpreter's recursion limit, SpecChecksum the md5 fix-up alone.   *)
(***************************************************************************)
EXTENDS Integers, Sequences, FiniteSets, TLC

VARIABLES
    \* ---- source catalog (samweb1) ----
    srcParents,   \* file -> sequence of parent file names (metadata 'parents')
    srcRetired,   \* set of files marked retired in the source catalog
    srcFlag,      \* file -> value of parameter sbn.migrate (NoFlag = absent)
    \* ---- target catalog (samweb2) ----
    tgtMeta,      \* file -> metadata mapping; the empty mapping = not declared
    tgtLocs,      \* file -> sequence of locations known to the target
    \* ---- one process of migrate_sam_files.py ----
    pc,           \* position of main(): idle, iter, files, final, done
    args,         \* parsed options: filename, nfiles, niter (remaining)
    files,        \* candidates of the current iteration not yet processed
    stack,        \* call stack of check_file/check_metadata/check_locations
    queued_metadata1,  \* the source metadata queue (list of records with file_name)
    stats,        \* nqueried, ndeclared, nmodified, nlocations, nmigrated
    invalidLog,   \* lines appended to the --invalid file
    \* ---- history of the current run (not read by the program) ----
    calls,        \* remote write calls issued so far, in order
    enqueued,     \* records handed to modifyFileMetadata so far, in order
    runs,         \* number of runs started
    \* ---- migrate_sam_users.py ----
    upc,          \* position of main(): idle, add, check, grids, done
    uargs,        \* option -u (NoUser = all users)
    srcUsers,     \* source catalog: user -> profile (groups, grid_subjects)
    tgtUsers,     \* target catalog: user -> profile; users absent are not in DOMAIN
    tgtUsers0,    \* target catalog as it was when the run started (history)
    utodo,        \* users still to visit in the current loop
    ucur,         \* user being checked, with the two profiles read for it
    ustats,       \* nsource_users, ntarget_users, nusers_added, nusers_updated
    ucalls,       \* remote write calls of the user migrator, in order
    \* ---- migrate_sam_definitions.py ----
    dpc,          \* position of main(): idle, loop, done, aborted, hung
    dargs,        \* options -d (NoDef = all definitions) and -n
    srcDefs,      \* source catalog: definition name -> defdict
    tgtDefs,      \* target catalog: definition name -> definition; absent = not in DOMAIN
    tgtDefs0,     \* target catalog as it was when the run started (history)
    defsd,        \* definitions the loop of main() has not visited yet
    dstack,       \* call stack of check_definition
    dstats,       \* nsource, ntarget, nadded, nskipped
    dcalls,       \* createDefinition calls issued so far, in order (history)
    \* ---- migrate_sam_locations.py ----
    lpc,          \* position of main(): idle, iter, files, locate, loop, done
    largs,        \* options --file, -n, --niter (remaining), --scratch
    lfiles,       \* files of the current iteration not yet processed
    lcur,         \* check_locations: file, index of the source location, locs2
    lstats,       \* nqueried, nlocations
    lcalls,       \* addFileLocation calls issued so far, in order (history)
    \* ---- two concurrent runs of migrate_sam_files.py ----
    engines,      \* engine -> its process state: position, frame of check_file, queue
    \* ---- the checksum fix-up of check_metadata on its own ----
    cksums        \* md1['checksum'] as read, as fixed up, and whether the fix-up ran

fileVars == <<srcParents, srcRetired, srcFlag, tgtMeta, tgtLocs, pc, args, files,
              stack, queued_metadata1, stats, invalidLog, calls, enqueued, runs>>
userVars == <<upc, uargs, srcUsers, tgtUsers, tgtUsers0, utodo, ucur, ustats, ucalls>>
defVars == <<dpc, dargs, srcDefs, tgtDefs, tgtDefs0, defsd, dstack, dstats, dcalls>>
locVars == <<lpc, largs, lfiles, lcur, lstats, lcalls>>
vars == <<fileVars, userVars, defVars, locVars, engines, cksums>>

-----------------------------------------------------------------------------
\* Bounds of the model.

\* Largest value of option --niter tried.
MaxIter == 4
\* Largest value of option -n/--nfiles tried (0 = no limit).
MaxNFiles == 1
\* Number of consecutive runs of migrate_sam_files.py.
MaxRuns == 2

\* Number of nested activations of check_file, or of check_definition, that
\* the interpreter allows before it raises RecursionError (the limit of
\* sys.getrecursionlimit(), scaled down).
MaxDepth == 5
\* Largest number of entries of a checksum list tried.
MaxChecksums == 2

\* Program constants.

\* migrate_sam_files.py:120  "if len(queued_metadata1) > 21"
QueueThreshold == 21
\* migrate_sam_files.py:183  "while len(value) < 32"
Md5Width == 32

-----------------------------------------------------------------------------
\* Generic helpers.

\* migrate = None (line 154): the file has no parameter sbn.migrate
NoFlag == -1
NoUser == ""
EmptyMd == <<>>

Restrict(m, S) == [k \in S |-> m[k]]
Without(m, S) == Restrict(m, DOMAIN m \ S)
\* dict.update(): the fields of upd win
Updated(m, upd) == upd @@ m
Last(s) == s[Len(s)]
Front(s) == SubSeq(s, 1, Len(s) - 1)
SeqToSet(s) == {s[i] : i \in 1..Len(s)}

RECURSIVE Flatten(_)
Flatten(ss) == IF ss = <<>> THEN <<>> ELSE Head(ss) \o Flatten(Tail(ss))

-----------------------------------------------------------------------------
\* Strings that the code inspects character by character are sequences of
\* one-character strings.

Md5Prefix == <<"m", "d", "5", ":">>

StartsWith(s, p) == Len(s) >= Len(p) /\ SubSeq(s, 1, Len(p)) = p

\* while len(value) < 32: value = '0' + value
RECURSIVE PadMd5(_)
PadMd5(value) == IF Len(value) < Md5Width THEN PadMd5(<<"0">> \o value) ELSE value

\* FixOneChecksum that pads on the right.
FixOneChecksum_RightPad(checksum) ==
    IF StartsWith(checksum, Md5Prefix)
    THEN Md5Prefix \o SubSeq(checksum, 5, Len(checksum))
            \o [i \in 1..(IF Len(checksum) - 4 < Md5Width
                           THEN Md5Width - (Len(checksum) - 4) ELSE 0) |-> "0"]
    ELSE checksum

FixOneChecksum(checksum) ==
    IF StartsWith(checksum, Md5Prefix)
    THEN Md5Prefix \o PadMd5(SubSeq(checksum, 5, Len(checksum)))
    ELSE checksum

ChecksumUpdated(checksums) ==
    \E i \in 1..Len(checksums) :
        /\ StartsWith(checksums[i], Md5Prefix)
        /\ Len(checksums[i]) - 4 < Md5Width

\* md1['checksum'] after the fix-up of check_metadata
FixChecksums(checksums) ==
    IF ChecksumUpdated(checksums)
    THEN [i \in 1..Len(checksums) |-> FixOneChecksum(checksums[i])]
    ELSE checksums

-----------------------------------------------------------------------------
\* The catalogs' contents. File names, in the order of their file_id.

FileList == <<"f1", "f2", "f3">>
Files == SeqToSet(FileList)
FileId(f) == CHOOSE i \in 1..Len(FileList) : FileList[i] = f
TgtFileId(f) == 100 + FileId(f)

Chars32 == [i \in 1..Md5Width |-> "a"]

\* Checksums of the source catalog: f1 has an md5 that lost its leading
\* zeros, f2 a full-width md5 after an adler32, f3 has no checksum field.
SrcChecksum(f) ==
    CASE f = "f1" -> << Md5Prefix \o <<"a", "b", "c">> >>
      [] f = "f2" -> << <<"a", "d", "l", "e", "r", "3", "2", ":", "1">>,
                        Md5Prefix \o Chars32 >>
      [] OTHER -> <<>>

\* A full path is a sequence of segments; the segment "/scratch/" is the
\* scratch marker that check_locations looks for. The first location of f1 is
\* on a local scratch disk: its full path starts with the marker.
ScratchMarker == "/scratch/"

SrcLocs(f) ==
    CASE f = "f1" -> << [location |-> "/scratch/local",
                         full_path |-> <<ScratchMarker, "local/", "f1">>],
                        [location |-> "dcache:/pnfs/persistent",
                         full_path |-> <<"dcache:", "/pnfs", "/persistent/", "f1">>] >>
      [] f = "f2" -> << [location |-> "dcache:/pnfs/scratch",
                         full_path |-> <<"dcache:", "/pnfs", ScratchMarker, "f2">>],
                        [location |-> "enstore:/pnfs/tape",
                         full_path |-> <<"enstore:", "/pnfs", "/tape/", "f2">>] >>
      [] OTHER -> <<>>

\* str.find(marker): 0-based position of the first occurrence, -1 if none
Find(path, marker) ==
    IF \E i \in 1..Len(path) : path[i] = marker
    THEN (CHOOSE i \in 1..Len(path) :
            /\ path[i] = marker
            /\ \A j \in 1..(i - 1) : path[j] # marker) - 1
    ELSE -1

\* One entry of md['parents'] as the source catalog returns it.
ParentEntry(p, retired) ==
    IF p \in retired
    THEN [file_name |-> p, file_id |-> FileId(p), retired |-> TRUE]
    ELSE [file_name |-> p, file_id |-> FileId(p)]

\* samweb1.getMetadata(f)
SourceMetadata(f, parents, retired, flag) ==
    LET base == [file_name |-> f, file_id |-> FileId(f), create_date |-> "src",
                 update_user |-> "srcadm", user |-> "alice", file_size |-> 10]
        cks == IF SrcChecksum(f) = <<>> THEN EmptyMd
               ELSE [checksum |-> SrcChecksum(f)]
        par == IF parents[f] = <<>> THEN EmptyMd
               ELSE [parents |-> [i \in 1..Len(parents[f]) |->
                                     ParentEntry(parents[f][i], retired)]]
        flg == IF flag[f] = NoFlag THEN EmptyMd ELSE ("sbn.migrate" :> flag[f])
    IN  base @@ cks @@ par @@ flg

\* The target catalog keeps what it is given and adds its own file_id and
\* create_date; parents are kept by name under the target's own file ids.
TgtParents(ps) == [i \in 1..Len(ps) |->
                      [file_name |-> ps[i].file_name, file_id |-> TgtFileId(ps[i].file_name)]]

TgtNormal(md) ==
    IF "parents" \in DOMAIN md
    THEN [md EXCEPT !["parents"] = TgtParents(md["parents"])]
    ELSE md

\* samweb2.declareFile(md)
Declared(md) ==
    TgtNormal(md) @@ [file_id |-> TgtFileId(md["file_name"]), create_date |-> "tgt"]

\* samweb2.modifyFileMetadata(f, md)
Modified(old, md) == Updated(old, TgtNormal(md))

-----------------------------------------------------------------------------
\* check_metadata: preparation of md1 and the update for the target.

Experiment == "sbnd"

NeverMigrated == {"file_id", "process_id", "create_date", "update_date",
                  "update_user", "sbn.migrate"}

\* Prepared that removes no key of the source record.
Prepared_KeepsAll(md) ==
    LET added == ("sbn.experiment" :> Experiment) @@ ("loc.scratch" :> 0) @@ md
    IN  IF "checksum" \in DOMAIN added
        THEN [added EXCEPT !["checksum"] = FixChecksums(added["checksum"])]
        ELSE added

\* lines 164-190: remove keys, add keys, fix up md5 checksums
Prepared(md) ==
    LET kept == Without(md, NeverMigrated)
        added == ("sbn.experiment" :> Experiment) @@ ("loc.scratch" :> 0) @@ kept
    IN  IF "checksum" \in DOMAIN added
        THEN [added EXCEPT !["checksum"] = FixChecksums(added["checksum"])]
        ELSE added

NeverUpdated == {"parents", "user"}

\* UpdateKeys without the fields the target lacks.
UpdateKeys_OnlyChanged(md1, md2) ==
    {k \in DOMAIN md1 \cap DOMAIN md2 : md2[k] # md1[k] /\ k \notin NeverUpdated}

\* UpdateKeys without the exception for 'parents' and 'user'.
UpdateKeys_OverwritesAll(md1, md2) ==
    {k \in DOMAIN md1 : IF k \in DOMAIN md2 THEN md2[k] # md1[k] ELSE TRUE}

\* lines 244-251: the keys of md_update
UpdateKeys(md1, md2) ==
    {k \in DOMAIN md1 :
        IF k \in DOMAIN md2
        THEN md2[k] # md1[k] /\ k \notin NeverUpdated
        ELSE TRUE}

MdUpdate(md1, md2) == Restrict(md1, UpdateKeys(md1, md2))

\* lines 196-201: del parent['file_id'] for the i-th parent
StripParent(md1, i) ==
    [md1 EXCEPT !["parents"][i] = Without(md1["parents"][i], {"file_id"})]

\* IsRetired that takes no parent for retired.
IsRetired_Never(parent) == FALSE

\* lines 203-206: 'retired' in parent and parent['retired']
IsRetired(parent) == "retired" \in DOMAIN parent /\ parent["retired"]

\* FlagRecord that asks for another check of the file (sbn.migrate = 1).
FlagRecord_CheckAgain(f, v) == ("sbn.migrate" :> 1) @@ [file_name |-> f]

\* queue record built by modifyFileMetadata (line 112: md['file_name'] = f)
FlagRecord(f, v) == ("sbn.migrate" :> v) @@ [file_name |-> f]

-----------------------------------------------------------------------------
\* Batched update queue (flushMetadata, modifyFileMetadata).

\* samweb1.modifyMetadata(records): every record sets the fields it holds
RECURSIVE ApplyBulk(_, _)
ApplyBulk(flag, recs) ==
    IF recs = <<>> THEN flag
    ELSE ApplyBulk([flag EXCEPT ![Head(recs)["file_name"]] = Head(recs)["sbn.migrate"]],
                   Tail(recs))

BulkCall(recs) == [db |-> "source", op |-> "modifyMetadata", recs |-> recs]

\* Flushed that sends the queue and does not clear it.
Flushed_KeepsQueue(q, flag, cs) ==
    [queued_metadata1 |-> q,
     flag  |-> IF Len(q) > 0 THEN ApplyBulk(flag, q) ELSE flag,
     calls |-> IF Len(q) > 0 THEN Append(cs, BulkCall(q)) ELSE cs]

\* flushMetadata(samweb1) on queue q: the queue, the source flags and the
\* remote calls afterwards
Flushed(q, flag, cs) ==
    [queued_metadata1 |-> <<>>,
     flag  |-> IF Len(q) > 0 THEN ApplyBulk(flag, q) ELSE flag,
     calls |-> IF Len(q) > 0 THEN Append(cs, BulkCall(q)) ELSE cs]

\* Enqueued that tests the queue length before the append.
Enqueued_TestBeforeAppend(q, rec, flag, cs) ==
    IF Len(q) > QueueThreshold
    THEN Flushed(Append(q, rec), flag, cs)
    ELSE [queued_metadata1 |-> Append(q, rec), flag |-> flag, calls |-> cs]

\* modifyFileMetadata(samweb1, f, md)
Enqueued(q, rec, flag, cs) ==
    LET q1 == Append(q, rec)
    IN  IF Len(q1) > QueueThreshold
        THEN Flushed(q1, flag, cs)
        ELSE [queued_metadata1 |-> q1, flag |-> flag, calls |-> cs]

-----------------------------------------------------------------------------
\* Initial states: the catalogs before the first run.

NoParents == [f \in Files |-> <<>>]

\* Acyclic parent graphs (child -> list of parents).
Graphs ==
    { NoParents,
      [NoParents EXCEPT !["f2"] = <<"f1">>],
      [NoParents EXCEPT !["f1"] = <<"f2">>],
      [NoParents EXCEPT !["f3"] = <<"f1", "f2">>],
      [NoParents EXCEPT !["f3"] = <<"f2">>, !["f2"] = <<"f1">>],
      [NoParents EXCEPT !["f3"] = <<"f2", "f1">>, !["f2"] = <<"f1">>] }

RetiredChoices == { {}, {"f1"}, {"f2"} }

\* md1 as check_metadata has it after the parents loop
FullyPrepared(md) ==
    LET p == Prepared(md)
    IN  IF "parents" \in DOMAIN p
        THEN [p EXCEPT !["parents"] =
                 [i \in 1..Len(p["parents"]) |-> Without(p["parents"][i], {"file_id"})]]
        ELSE p

TgtVariants == {"absent", "same", "size", "user", "lacks"}

\* A record the target catalog may hold for f before the first run; it names
\* parents only if the target holds them as well.
InitTgtRecord(f, variant, parents, retired, present) ==
    LET md   == FullyPrepared(SourceMetadata(f, parents, retired, [g \in Files |-> NoFlag]))
        md0  == IF SeqToSet(parents[f]) \subseteq present THEN md
                ELSE Without(md, {"parents"})
        same == Declared(md0)
    IN  CASE variant = "absent" -> EmptyMd
          [] variant = "same"   -> same
          [] variant = "size"   -> [same EXCEPT !["file_size"] = 11]
          [] variant = "user"   -> [same EXCEPT !["user"] = "bob"]
          [] variant = "lacks"  -> Without(same, {"checksum"})

NoStats == [nqueried |-> 0, ndeclared |-> 0, nmodified |-> 0, nlocations |-> 0,
            nmigrated |-> 0]

\* no checksum list is at hand
NoCksums == [input |-> <<>>, output |-> <<>>, done |-> FALSE]

NoArgs == [filename |-> "", nfiles |-> 0, niter |-> 0, invalid |-> FALSE]

FilesIdle ==
    /\ pc = "idle"
    /\ args = NoArgs
    /\ files = <<>>
    /\ stack = <<>>
    /\ queued_metadata1 = <<>>
    /\ stats = NoStats
    /\ invalidLog = <<>>
    /\ calls = <<>>
    /\ enqueued = <<>>
    /\ runs = 0

InitFiles ==
    /\ srcParents \in Graphs
    /\ srcRetired \in RetiredChoices
    /\ srcFlag \in {[f \in Files |-> NoFlag], [f \in Files |-> IF f = "f1" THEN 1 ELSE NoFlag]}
    /\ \E v1 \in TgtVariants, has2 \in BOOLEAN :
          LET present == (IF v1 = "absent" THEN {} ELSE {"f1"})
                            \cup (IF has2 THEN {"f2"} ELSE {})
          IN  tgtMeta = [f \in Files |->
                            CASE f = "f1" -> InitTgtRecord(f, v1, srcParents, srcRetired, present)
                              [] f = "f2" -> InitTgtRecord(f, IF has2 THEN "same" ELSE "absent",
                                                           srcParents, srcRetired, present)
                              [] OTHER -> EmptyMd]
    /\ tgtLocs = [f \in Files |-> <<>>]
    /\ FilesIdle

-----------------------------------------------------------------------------
\* migrate_sam_files.py: main().

Min(a, b) == IF a < b THEN a ELSE b

\* The option values tried.
ArgChoices ==
    { [filename |-> fn, nfiles |-> n, niter |-> k, invalid |-> FALSE] :
        fn \in {"", "f3"}, n \in 0..MaxNFiles, k \in {1, MaxIter} }

\* ListFiles whose dimension excludes only the files with sbn.migrate 0.
ListFiles_ListsInvalid(a, flag) ==
    LET Candidate(f) == /\ a.filename \in {"", f}
                        /\ flag[f] # 0
        all == SelectSeq(FileList, Candidate)
    IN  IF a.nfiles > 0 THEN SubSeq(all, 1, Min(a.nfiles, Len(all))) ELSE all

\* samweb1.listFiles(dim): dim selects one file or all files, minus the files
\* with sbn.migrate 0 or 2, retired files included, at most nfiles of them.
\* The catalog answers in the order of the file ids.
ListFiles(a, flag) ==
    LET Candidate(f) == /\ a.filename \in {"", f}
                        /\ flag[f] \notin {0, 2}
        all == SelectSeq(FileList, Candidate)
    IN  IF a.nfiles > 0 THEN SubSeq(all, 1, Min(a.nfiles, Len(all))) ELSE all

\* A fresh activation of check_file(f).
Frame(f) ==
    [f |-> f, pc |-> "cm_start", md1 |-> EmptyMd, md2 |-> EmptyMd, i |-> 1,
     parents_ok |-> TRUE, migrate |-> NoFlag, ok |-> TRUE, j |-> 1, locs2 |-> <<>>]

Top == stack[Len(stack)]
SetTop(fr) == [stack EXCEPT ![Len(stack)] = fr]
InCall(p) == pc = "files" /\ stack # <<>> /\ Top.pc = p

catalogVars == <<srcParents, srcRetired, srcFlag, tgtMeta, tgtLocs>>
\* the other scripts are not running
userIdle == UNCHANGED <<userVars, defVars, locVars, engines, cksums>>

\* A new process: arguments parsed, globals at their initial values,
\* the --invalid file removed.
StartRun ==
    /\ pc \in {"idle", "done"}
    /\ runs < MaxRuns
    /\ \E a \in ArgChoices : args' = a
    /\ pc' = "iter"
    /\ files' = <<>>
    /\ stack' = <<>>
    /\ queued_metadata1' = <<>>
    /\ stats' = NoStats
    /\ invalidLog' = <<>>
    /\ calls' = <<>>
    /\ enqueued' = <<>>
    /\ runs' = runs + 1
    /\ UNCHANGED catalogVars
    /\ userIdle

\* while niter > 0: niter -= 1; files = listFiles(dim); break if empty
Iterate ==
    /\ pc = "iter"
    /\ IF args.niter > 0
       THEN LET fl == ListFiles(args, srcFlag)
            IN  /\ args' = [args EXCEPT !.niter = @ - 1]
                /\ IF fl = <<>>
                   THEN pc' = "final" /\ UNCHANGED <<files, stats>>
                   ELSE /\ pc' = "files"
                        /\ files' = fl
                        /\ stats' = [stats EXCEPT !.nqueried = @ + Len(fl)]
       ELSE pc' = "final" /\ UNCHANGED <<args, files, stats>>
    /\ UNCHANGED <<catalogVars, stack, queued_metadata1, invalidLog, calls, enqueued, runs>>
    /\ userIdle

\* for f in files: check_file(...)
NextFile ==
    /\ pc = "files"
    /\ stack = <<>>
    /\ IF files = <<>>
       THEN pc' = "iter" /\ UNCHANGED <<files, stack>>
       ELSE /\ stack' = <<Frame(Head(files))>>
            /\ files' = Tail(files)
            /\ pc' = pc
    /\ UNCHANGED <<catalogVars, args, queued_metadata1, stats, invalidLog, calls, enqueued, runs>>
    /\ userIdle

\* FinalFlush without the call of flushMetadata.
FinalFlush_Missing ==
    /\ pc = "final"
    /\ pc' = "done"
    /\ UNCHANGED <<catalogVars, args, files, stack, queued_metadata1, stats, invalidLog, calls,
                   enqueued, runs>>
    /\ userIdle

\* flushMetadata(samweb1) after the iteration loop, then the summary
FinalFlush ==
    /\ pc = "final"
    /\ LET r == Flushed(queued_metadata1, srcFlag, calls)
       IN  /\ queued_metadata1' = r.queued_metadata1
           /\ srcFlag' = r.flag
           /\ calls' = r.calls
    /\ pc' = "done"
    /\ UNCHANGED <<srcParents, srcRetired, tgtMeta, tgtLocs, args, files, stack,
                   stats, invalidLog, enqueued, runs>>
    /\ userIdle

-----------------------------------------------------------------------------
\* check_file / check_metadata / check_locations, one remote call per step.

procVars == <<pc, args, files, runs>>

\* ReadSource where check_file returns True for sbn.migrate 2 as well.
ReadSource_FlagTwoSucceeds ==
    /\ InCall("cm_start")
    /\ LET md == SourceMetadata(Top.f, srcParents, srcRetired, srcFlag)
           migrate == IF "sbn.migrate" \in DOMAIN md THEN md["sbn.migrate"] ELSE NoFlag
       IN  IF migrate \in {0, 2}
           THEN stack' = SetTop([Top EXCEPT !.migrate = migrate, !.pc = "cf_ret"])
           ELSE stack' = SetTop([Top EXCEPT !.migrate = migrate,
                                            !.md1 = Prepared(md),
                                            !.pc = "cm_parents"])
    /\ UNCHANGED <<catalogVars, procVars, queued_metadata1, stats, invalidLog, calls, enqueued>>
    /\ userIdle

\* ReadSource with check_file testing only "migrate != 0" before the location
\* check and the flag update.
ReadSource_SkipsOnlyZero ==
    /\ InCall("cm_start")
    /\ LET md == SourceMetadata(Top.f, srcParents, srcRetired, srcFlag)
           migrate == IF "sbn.migrate" \in DOMAIN md THEN md["sbn.migrate"] ELSE NoFlag
       IN  IF migrate \in {0, 2}
           THEN stack' = SetTop([Top EXCEPT !.migrate = migrate,
                                            !.pc = IF migrate = 2 THEN "cl_start"
                                                   ELSE "cf_ret"])
           ELSE stack' = SetTop([Top EXCEPT !.migrate = migrate,
                                            !.md1 = Prepared(md),
                                            !.pc = "cm_parents"])
    /\ UNCHANGED <<catalogVars, procVars, queued_metadata1, stats, invalidLog, calls, enqueued>>
    /\ userIdle

\* check_metadata lines 149-190: read the source metadata; return at once
\* on flag 0 or 2, else prepare md1.
ReadSource ==
    /\ InCall("cm_start")
    /\ Len(stack) < MaxDepth
    /\ LET md == SourceMetadata(Top.f, srcParents, srcRetired, srcFlag)
           migrate == IF "sbn.migrate" \in DOMAIN md THEN md["sbn.migrate"] ELSE NoFlag
       IN  IF migrate \in {0, 2}
           THEN stack' = SetTop([Top EXCEPT !.migrate = migrate,
                                            !.ok = (migrate # 2),
                                            !.pc = "cf_ret"])
           ELSE stack' = SetTop([Top EXCEPT !.migrate = migrate,
                                            !.md1 = Prepared(md),
                                            !.pc = "cm_parents"])
    /\ UNCHANGED <<catalogVars, procVars, queued_metadata1, stats, invalidLog, calls, enqueued>>
    /\ userIdle

HasParentLeft(fr) == "parents" \in DOMAIN fr.md1 /\ fr.i <= Len(fr.md1["parents"])

\* CheckParent without the recursive check_file of the parent.
CheckParent_NoRecursion ==
    /\ InCall("cm_parents")
    /\ HasParentLeft(Top)
    /\ LET parent == Top.md1["parents"][Top.i]
       IN  stack' = SetTop([Top EXCEPT !.md1 = StripParent(Top.md1, Top.i),
                                       !.parents_ok = @ /\ ~IsRetired(parent),
                                       !.i = @ + 1])
    /\ UNCHANGED <<catalogVars, procVars, queued_metadata1, stats, invalidLog, calls, enqueued>>
    /\ userIdle

\* check_metadata lines 196-213: one pass of the parents loop; the call of
\* check_file for the parent suspends this activation.
CheckParent ==
    /\ InCall("cm_parents")
    /\ HasParentLeft(Top)
    /\ LET parent == Top.md1["parents"][Top.i]
           md1 == StripParent(Top.md1, Top.i)
           ok == Top.parents_ok /\ ~IsRetired(parent)
       IN  IF ok
           THEN stack' = Append(SetTop([Top EXCEPT !.md1 = md1, !.pc = "cm_wait"]),
                                Frame(parent["file_name"]))
           ELSE stack' = SetTop([Top EXCEPT !.md1 = md1, !.parents_ok = FALSE,
                                            !.i = @ + 1])
    /\ UNCHANGED <<catalogVars, procVars, queued_metadata1, stats, invalidLog, calls, enqueued>>
    /\ userIdle

\* check_metadata lines 217-227: a parent is retired or could not be
\* migrated; flag 2 is written to the source at once.
SetInvalid ==
    /\ InCall("cm_parents")
    /\ ~HasParentLeft(Top)
    /\ ~Top.parents_ok
    /\ srcFlag' = [srcFlag EXCEPT ![Top.f] = 2]
    /\ calls' = Append(calls, [db |-> "source", op |-> "modifyFileMetadata",
                               file |-> Top.f, md |-> ("sbn.migrate" :> 2)])
    /\ stats' = [stats EXCEPT !.nmodified = @ + 1]
    /\ stack' = SetTop([Top EXCEPT !.migrate = 2, !.ok = FALSE, !.pc = "cf_ret"])
    /\ UNCHANGED <<srcParents, srcRetired, tgtMeta, tgtLocs, procVars, queued_metadata1,
                   invalidLog, enqueued>>
    /\ userIdle

\* check_metadata lines 232-237: md2 = samweb2.getMetadata(f), {} if absent
ReadTarget ==
    /\ InCall("cm_parents")
    /\ ~HasParentLeft(Top)
    /\ Top.parents_ok
    /\ stack' = SetTop([Top EXCEPT !.md2 = tgtMeta[Top.f], !.pc = "cm_write"])
    /\ UNCHANGED <<catalogVars, procVars, queued_metadata1, stats, invalidLog, calls, enqueued>>
    /\ userIdle

\* check_metadata lines 244-264: compute md_update, then update or declare
WriteTarget ==
    /\ InCall("cm_write")
    /\ LET f == Top.f
           md_update == MdUpdate(Top.md1, Top.md2)
       IN  IF DOMAIN md_update # {}
           THEN IF DOMAIN Top.md2 # {}
                THEN /\ tgtMeta' = [tgtMeta EXCEPT ![f] = Modified(@, md_update)]
                     /\ calls' = Append(calls, [db |-> "target", op |-> "modifyFileMetadata",
                                                file |-> f, md |-> md_update])
                     /\ stats' = [stats EXCEPT !.nmodified = @ + 1]
                ELSE /\ tgtMeta' = [tgtMeta EXCEPT ![f] = Declared(md_update)]
                     /\ calls' = Append(calls, [db |-> "target", op |-> "declareFile",
                                                file |-> f, md |-> md_update])
                     /\ stats' = [stats EXCEPT !.ndeclared = @ + 1]
           ELSE UNCHANGED <<tgtMeta, calls, stats>>
    /\ stack' = SetTop([Top EXCEPT !.pc = "cl_start"])
    /\ UNCHANGED <<srcParents, srcRetired, srcFlag, tgtLocs, procVars, queued_metadata1,
                   invalidLog, enqueued>>
    /\ userIdle


\* check_locations lines 279-301: read both location lists; the target cannot
\* locate a file it does not hold.
ReadLocations ==
    /\ InCall("cl_start")
    /\ IF tgtMeta[Top.f] = EmptyMd
       THEN /\ stack' = SetTop([Top EXCEPT !.ok = FALSE, !.pc = "cf_ret"])
            /\ invalidLog' = IF args.invalid THEN Append(invalidLog, Top.f) ELSE invalidLog
       ELSE /\ stack' = SetTop([Top EXCEPT !.locs2 = tgtLocs[Top.f], !.j = 1,
                                           !.pc = "cl_loop"])
            /\ UNCHANGED invalidLog
    /\ UNCHANGED <<catalogVars, procVars, queued_metadata1, stats, calls, enqueued>>
    /\ userIdle

IsScratch(loc) == Find(loc.full_path, ScratchMarker) > 0

\* LocMatch that compares the location strings.
LocMatch_ByLocation(loc1, locs2) == \E n \in 1..Len(locs2) : locs2[n].location = loc1.location

\* lines 314-319: loc_match, by full_path
LocMatch(loc1, locs2) == \E n \in 1..Len(locs2) : locs2[n].full_path = loc1.full_path

\* CheckLocation that never adds a location to the target.
CheckLocation_NoAdd ==
    /\ InCall("cl_loop")
    /\ Top.j <= Len(SrcLocs(Top.f))
    /\ stack' = SetTop([Top EXCEPT !.j = @ + 1])
    /\ UNCHANGED <<catalogVars, procVars, queued_metadata1, stats, invalidLog, calls, enqueued>>
    /\ userIdle

\* check_locations lines 304-325: one source location
CheckLocation ==
    /\ InCall("cl_loop")
    /\ Top.j <= Len(SrcLocs(Top.f))
    /\ LET loc1 == SrcLocs(Top.f)[Top.j]
       IN  IF ~IsScratch(loc1) /\ ~LocMatch(loc1, Top.locs2)
           THEN /\ tgtLocs' = [tgtLocs EXCEPT ![Top.f] = Append(@, loc1)]
                /\ calls' = Append(calls, [db |-> "target", op |-> "addFileLocation",
                                           file |-> Top.f, location |-> loc1.location])
                /\ stats' = [stats EXCEPT !.nlocations = @ + 1]
           ELSE UNCHANGED <<tgtLocs, calls, stats>>
    /\ stack' = SetTop([Top EXCEPT !.j = @ + 1])
    /\ UNCHANGED <<srcParents, srcRetired, srcFlag, tgtMeta, procVars, queued_metadata1,
                   invalidLog, enqueued>>
    /\ userIdle

\* EnqueueDone that counts the file as migrated and queues nothing.
EnqueueDone_NoFlagUpdate ==
    /\ InCall("cl_loop")
    /\ Top.j > Len(SrcLocs(Top.f))
    /\ stats' = [stats EXCEPT !.nmigrated = @ + 1]
    /\ stack' = SetTop([Top EXCEPT !.pc = "cf_ret"])
    /\ UNCHANGED <<catalogVars, procVars, queued_metadata1, invalidLog, calls, enqueued>>
    /\ userIdle

\* check_file lines 347-354: the location check succeeded; queue the update
\* sbn.migrate = 0 for the source.
EnqueueDone ==
    /\ InCall("cl_loop")
    /\ Top.j > Len(SrcLocs(Top.f))
    /\ LET rec == FlagRecord(Top.f, 0)
           r == Enqueued(queued_metadata1, rec, srcFlag, calls)
       IN  /\ queued_metadata1' = r.queued_metadata1
           /\ srcFlag' = r.flag
           /\ calls' = r.calls
           /\ enqueued' = Append(enqueued, rec)
    /\ stats' = [stats EXCEPT !.nmigrated = @ + 1]
    /\ stack' = SetTop([Top EXCEPT !.pc = "cf_ret"])
    /\ UNCHANGED <<srcParents, srcRetired, tgtMeta, tgtLocs, procVars, invalidLog>>
    /\ userIdle

\* check_file line 360: return ok to the parents loop of the caller, or to main
Return ==
    /\ InCall("cf_ret")
    /\ IF Len(stack) > 1
       THEN LET caller == stack[Len(stack) - 1]
            IN  stack' = [Front(stack) EXCEPT ![Len(stack) - 1] =
                             [caller EXCEPT !.parents_ok = Top.ok, !.i = @ + 1,
                                            !.pc = "cm_parents"]]
       ELSE stack' = <<>>
    /\ UNCHANGED <<catalogVars, procVars, queued_metadata1, stats, invalidLog, calls, enqueued>>
    /\ userIdle

NextFiles ==
    \/ StartRun
    \/ Iterate
    \/ NextFile
    \/ ReadSource
    \/ CheckParent
    \/ SetInvalid
    \/ ReadTarget
    \/ WriteTarget
    \/ ReadLocations
    \/ CheckLocation
    \/ EnqueueDone
    \/ Return
    \/ FinalFlush

-----------------------------------------------------------------------------
\* migrate_sam_users.py: main().

\* u4 is known to neither catalog
UserNames == {"u1", "u2", "u3", "u4"}

Profile(first, groups, grids) ==
    [first_name |-> first, last_name |-> "L", email |-> "e@x", groups |-> groups,
     grid_subjects |-> grids]

\* The source catalog knows u1 and u2; u3 is known to the target only.
SourceUsers ==
    [u \in {"u1", "u2"} |->
        IF u = "u1" THEN Profile("A", {"g1", "g2"}, {"s1", "s2"})
        ELSE Profile("B", {"g1"}, {})]

NoUStats == [nsource_users |-> 0, ntarget_users |-> 0, nusers_added |-> 0,
             nusers_updated |-> 0]

NoCur == [user |-> NoUser, groups1 |-> {}, groups2 |-> {}, grids1 |-> {}, grids2 |-> {},
          add_groups |-> {}, update_grid |-> FALSE]

\* What the target catalog may hold before the run.
InitUsers ==
    /\ upc = "idle"
    /\ uargs = NoUser
    /\ srcUsers = SourceUsers
    /\ \E has1, has2 \in BOOLEAN, g1 \in SUBSET {"g1", "g3"}, s1 \in SUBSET {"s1", "s3"} :
          tgtUsers = [u \in {"u3"} \cup (IF has1 THEN {"u1"} ELSE {})
                                   \cup (IF has2 THEN {"u2"} ELSE {}) |->
                         CASE u = "u1" -> Profile("A", g1, s1)
                           [] u = "u2" -> Profile("B", {"g3"}, {})
                           [] OTHER -> Profile("C", {"g3"}, {"s3"})]
    /\ tgtUsers0 = tgtUsers
    /\ utodo = {}
    /\ ucur = NoCur
    /\ ustats = NoUStats
    /\ ucalls = <<>>

\* users1 (lines 106-110)
Users1(u) == IF u = NoUser THEN DOMAIN srcUsers ELSE {u}

filesIdle == UNCHANGED <<fileVars, defVars, locVars, engines, cksums>>

\* lines 84-119: parse -u, list both catalogs, usersd = users1 - users2
UStart ==
    /\ upc = "idle"
    /\ \E u \in {NoUser} \cup UserNames :
          /\ uargs' = u
          /\ utodo' = Users1(u) \ DOMAIN tgtUsers
          /\ ustats' = [NoUStats EXCEPT !.nsource_users = Cardinality(Users1(u)),
                                        !.ntarget_users = Cardinality(DOMAIN tgtUsers)]
    /\ upc' = "add"
    /\ tgtUsers0' = tgtUsers
    /\ UNCHANGED <<srcUsers, tgtUsers, ucur, ucalls>>
    /\ filesIdle

\* UserAdded that drops the email address.
UserAdded_NoEmail(tgt, user, first, last, email) ==
    (user :> [first_name |-> first, last_name |-> last, email |-> "",
              groups |-> {}, grid_subjects |-> {}]) @@ tgt

\* samweb2.addUser(user, firstname, lastname, email)
UserAdded(tgt, user, first, last, email) ==
    (user :> [first_name |-> first, last_name |-> last, email |-> email,
              groups |-> {}, grid_subjects |-> {}]) @@ tgt

\* GroupsAdded that sets the groups of the user instead of adding to them.
GroupsAdded_Replaces(tgt, user, groups) ==
    [tgt EXCEPT ![user].groups = groups]

\* samweb2.modifyUser(user, addgroups=groups)
GroupsAdded(tgt, user, groups) ==
    [tgt EXCEPT ![user].groups = @ \cup groups]

\* samweb2.modifyUser(user, addgridsubject=grid)
GridAdded(tgt, user, grid) ==
    [tgt EXCEPT ![user].grid_subjects = @ \cup {grid}]

\* lines 124-132: one missing user; describeUser raises for a user the
\* source does not know, which ends the process.
UAddUser ==
    /\ upc = "add"
    /\ \E user \in utodo :
          IF user \in DOMAIN srcUsers
          THEN LET d == srcUsers[user]
               IN  /\ tgtUsers' = UserAdded(tgtUsers, user, d.first_name, d.last_name, d.email)
                   /\ ucalls' = Append(ucalls, [op |-> "addUser", user |-> user])
                   /\ ustats' = [ustats EXCEPT !.nusers_added = @ + 1,
                                               !.ntarget_users = @ + 1]
                   /\ utodo' = utodo \ {user}
                   /\ upc' = upc
          ELSE /\ upc' = "failed"
               /\ UNCHANGED <<tgtUsers, ucalls, ustats, utodo>>
    /\ UNCHANGED <<uargs, srcUsers, tgtUsers0, ucur>>
    /\ filesIdle

\* line 137: the second loop visits every user of users1
UAddDone ==
    /\ upc = "add"
    /\ utodo = {}
    /\ upc' = "check"
    /\ utodo' = Users1(uargs)
    /\ UNCHANGED <<uargs, srcUsers, tgtUsers, tgtUsers0, ucur, ustats, ucalls>>
    /\ filesIdle

\* lines 139-145, 161-162: read both profiles of one user of users1
UDescribe ==
    /\ upc = "check"
    /\ \E user \in utodo :
          IF user \in DOMAIN srcUsers /\ user \in DOMAIN tgtUsers
          THEN LET d1 == srcUsers[user]
                   d2 == tgtUsers[user]
               IN  /\ ucur' = [user |-> user, groups1 |-> d1.groups, groups2 |-> d2.groups,
                               grids1 |-> d1.grid_subjects, grids2 |-> d2.grid_subjects,
                               add_groups |-> {}, update_grid |-> FALSE]
                   /\ utodo' = utodo \ {user}
                   /\ upc' = "groups"
          ELSE /\ upc' = "failed"
               /\ UNCHANGED <<ucur, utodo>>
    /\ UNCHANGED <<uargs, srcUsers, tgtUsers, tgtUsers0, ustats, ucalls>>
    /\ filesIdle

\* lines 148-157: the groups of the source the target lacks, added in one call
UGroups ==
    /\ upc = "groups"
    /\ LET add_groups == {g \in ucur.groups1 : g \notin ucur.groups2}
       IN  /\ ucur' = [ucur EXCEPT !.add_groups = add_groups]
           /\ IF add_groups # {}
              THEN /\ tgtUsers' = GroupsAdded(tgtUsers, ucur.user, add_groups)
                   /\ ucalls' = Append(ucalls, [op |-> "addgroups", user |-> ucur.user,
                                                groups |-> add_groups])
              ELSE UNCHANGED <<tgtUsers, ucalls>>
    /\ upc' = "grids"
    /\ UNCHANGED <<uargs, srcUsers, tgtUsers0, utodo, ustats>>
    /\ filesIdle

\* UGrid where a failing modifyUser ends the process.
UGrid_FailureAborts ==
    /\ upc = "grids"
    /\ \E grid \in ucur.grids1, fails \in BOOLEAN :
          IF grid \notin ucur.grids2
          THEN IF fails
               THEN /\ upc' = "failed"
                    /\ ucalls' = Append(ucalls, [op |-> "addgridsubject", user |-> ucur.user,
                                                 grid |-> grid, failed |-> TRUE])
                    /\ UNCHANGED <<tgtUsers, ucur>>
               ELSE /\ ucur' = [ucur EXCEPT !.grids1 = @ \ {grid}, !.update_grid = TRUE]
                    /\ tgtUsers' = GridAdded(tgtUsers, ucur.user, grid)
                    /\ ucalls' = Append(ucalls, [op |-> "addgridsubject", user |-> ucur.user,
                                                 grid |-> grid, failed |-> FALSE])
                    /\ upc' = upc
          ELSE /\ ~fails
               /\ ucur' = [ucur EXCEPT !.grids1 = @ \ {grid}]
               /\ upc' = upc
               /\ UNCHANGED <<tgtUsers, ucalls>>
    /\ UNCHANGED <<uargs, srcUsers, tgtUsers0, utodo, ustats>>
    /\ filesIdle

\* lines 166-173: one grid subject of the source; a failing modifyUser is
\* caught and the loop goes on.
UGrid ==
    /\ upc = "grids"
    /\ \E grid \in ucur.grids1, fails \in BOOLEAN :
          IF grid \notin ucur.grids2
          THEN IF fails
               THEN /\ ucur' = [ucur EXCEPT !.grids1 = @ \ {grid}]
                    /\ ucalls' = Append(ucalls, [op |-> "addgridsubject", user |-> ucur.user,
                                                 grid |-> grid, failed |-> TRUE])
                    /\ UNCHANGED tgtUsers
               ELSE /\ ucur' = [ucur EXCEPT !.grids1 = @ \ {grid}, !.update_grid = TRUE]
                    /\ tgtUsers' = GridAdded(tgtUsers, ucur.user, grid)
                    /\ ucalls' = Append(ucalls, [op |-> "addgridsubject", user |-> ucur.user,
                                                 grid |-> grid, failed |-> FALSE])
          ELSE /\ ~fails
               /\ ucur' = [ucur EXCEPT !.grids1 = @ \ {grid}]
               /\ UNCHANGED <<tgtUsers, ucalls>>
    /\ UNCHANGED <<upc, uargs, srcUsers, tgtUsers0, utodo, ustats>>
    /\ filesIdle

\* lines 175-176: the user is counted as updated
UUserDone ==
    /\ upc = "grids"
    /\ ucur.grids1 = {}
    /\ ustats' = IF ucur.add_groups # {} \/ ucur.update_grid
                 THEN [ustats EXCEPT !.nusers_updated = @ + 1]
                 ELSE ustats
    /\ upc' = "check"
    /\ UNCHANGED <<uargs, srcUsers, tgtUsers, tgtUsers0, utodo, ucur, ucalls>>
    /\ filesIdle

\* lines 178-187: the summary is printed and main returns
UFinish ==
    /\ upc = "check"
    /\ utodo = {}
    /\ upc' = "done"
    /\ UNCHANGED <<uargs, srcUsers, tgtUsers, tgtUsers0, utodo, ucur, ustats, ucalls>>
    /\ filesIdle

NextUsers ==
    \/ UStart
    \/ UAddUser
    \/ UAddDone
    \/ UDescribe
    \/ UGroups
    \/ UGrid
    \/ UUserDone
    \/ UFinish

-----------------------------------------------------------------------------
\* migrate_sam_definitions.py. Definition names and dimension strings are
\* sequences of one-character strings: the code searches and slices them.

\* Largest value of option -n/--ndefinitions tried (0 = no limit).
MaxNDefs == 1

\* specific_def = '' (line 240)
NoDef == <<>>

\* s.find(sub): 0-based position of the first occurrence of sub in s, -1 if none
StrFind(s, sub) ==
    LET hits == {i \in 1..(Len(s) - Len(sub) + 1) : SubSeq(s, i, i + Len(sub) - 1) = sub}
    IN  IF hits = {} THEN -1
        ELSE (CHOOSE i \in hits : \A j \in hits : i <= j) - 1

\* s[start:]
Slice(s, start) == IF start >= Len(s) THEN <<>> ELSE SubSeq(s, start + 1, Len(s))

RECURSIVE SkipSpaces(_)
SkipSpaces(s) == IF s # <<>> /\ Head(s) = " " THEN SkipSpaces(Tail(s)) ELSE s

RECURSIVE TakeWord(_)
TakeWord(s) == IF s = <<>> \/ Head(s) = " " THEN <<>> ELSE <<Head(s)>> \o TakeWord(Tail(s))

\* s.split()[0]; the empty sequence where s.split() is empty (IndexError)
FirstWord(s) == TakeWord(SkipSpaces(s))

\* 'defname:'
KwDefname == <<"d", "e", "f", "n", "a", "m", "e", ":">>

\* lines 110, 112: "dim[start+8:]", "start += 8"
DefnameSkip == 8

\* lines 92-99: str.replace returns a new string that the code drops, so dim
\* stays as it is and the loop of line 98 never ends once dim holds ' :'
ExtractHangs(dim) == StrFind(dim, <<" ", ":">>) >= 0

\* lines 101-118: the loop of extract_definitions from position start on
RECURSIVE ExtractFrom(_, _, _)
ExtractFrom(dim, start, result) ==
    IF start >= 0 /\ start < Len(dim)
    THEN LET n == StrFind(Slice(dim, start), KwDefname)
         IN  IF n >= 0
             THEN LET subdef == FirstWord(Slice(dim, start + DefnameSkip))
                  IN  IF subdef = <<>>
                      THEN [status |-> "IndexError", result |-> result]
                      ELSE ExtractFrom(dim, start + DefnameSkip, Append(result, subdef))
             ELSE ExtractFrom(dim, -1, result)
    ELSE [status |-> "ok", result |-> result]

\* extract_definitions(dim): the list returned, or how the call ends otherwise
extract_definitions(dim) ==
    IF ExtractHangs(dim) THEN [status |-> "hang", result |-> <<>>]
    ELSE ExtractFrom(dim, 0, <<>>)

\* lines 181-195: the non-migratable dimensions
ids ==
    << <<"c", "o", "n", "s", "u", "m", "e", "r", "_", "p", "r", "o", "c", "e", "s", "s", "_", "i", "d">>,
       <<"c", "o", "n", "s", "u", "m", "e", "d", "_", "s", "t", "a", "t", "u", "s">>,
       <<"d", "a", "t", "a", "s", "e", "t", "_", "d", "e", "f", "_", "i", "d">>,
       <<"f", "i", "l", "e", "_", "i", "d">>,
       <<"p", "r", "o", "j", "e", "c", "t", "_", "i", "d">>,
       <<"p", "r", "o", "j", "e", "c", "t", "_", "n", "a", "m", "e">>,
       <<"d", "a", "t", "a", "s", "e", "t", "_", "d", "e", "f", "_", "n", "a", "m", "e">>,
       <<"d", "a", "t", "a", "s", "e", "t", "_", "d", "e", "f", "_", "i", "d">>,
       <<"d", "a", "t", "a", "s", "e", "t", "_", "d", "e", "f", "_", "n", "a", "m", "e", "_", "n", "e", "w", "e", "s", "t", "_", "s", "n", "a", "p", "s", "h", "o", "t">>,
       <<"d", "e", "f", "_", "s", "n", "a", "p", "s", "h", "o", "t">>,
       <<"s", "n", "a", "p", "s", "h", "o", "t", "_", "i", "d">>,
       <<"s", "n", "a", "p", "s", "h", "o", "t", "_", "f", "i", "l", "e", "_", "n", "u", "m", "b", "e", "r">>,
       <<"s", "n", "a", "p", "s", "h", "o", "t", "_", "f", "o", "r", "_", "p", "r", "o", "j", "e", "c", "t", "_", "i", "d">>,
       <<"s", "n", "a", "p", "s", "h", "o", "t", "_", "f", "o", "r", "_", "p", "r", "o", "j", "e", "c", "t", "_", "n", "a", "m", "e">>,
       <<"s", "n", "a", "p", "s", "h", "o", "t", "_", "v", "e", "r", "s", "i", "o", "n">> >>

\* lines 196-202: dim_ok after the loop over ids
DimOk(dim) == \A n \in 1..Len(ids) : StrFind(dim, ids[n]) < 0

\* The definitions of the source catalog, by name.
DefNames == {<<"a">>, <<"b">>, <<"c">>, <<"d">>, <<"e">>, <<"g">>, <<"h">>, <<"k">>}

\* The dimensions of each of them.
DimOf(name) ==
    CASE name = <<"a">> ->
           \* a: 'r 1' (plain)
           <<"r", " ", "1">>
      [] name = <<"b">> ->
           \* b: 'defname: a' (one reference, keyword first)
           <<"d", "e", "f", "n", "a", "m", "e", ":", " ", "a">>
      [] name = <<"c">> ->
           \* c: 'defname: x' (references x, which no catalog knows)
           <<"d", "e", "f", "n", "a", "m", "e", ":", " ", "x">>
      [] name = <<"d">> ->
           \* d: 'file_id 5' (non-migratable dimension)
           <<"f", "i", "l", "e", "_", "i", "d", " ", "5">>
      [] name = <<"e">> ->
           \* e: 'defname: a and file_id 5' (reference and non-migratable dimension)
           <<"d", "e", "f", "n", "a", "m", "e", ":", " ", "a", " ", "a", "n", "d", " ", "f", "i", "l", "e", "_", "i", "d", " ", "5">>
      [] name = <<"g">> ->
           \* g: 'r 1 and defname: a' (keyword not at the start)
           <<"r", " ", "1", " ", "a", "n", "d", " ", "d", "e", "f", "n", "a", "m", "e", ":", " ", "a">>
      [] name = <<"h">> ->
           \* h: 'defname: a or defname: b' (two references)
           <<"d", "e", "f", "n", "a", "m", "e", ":", " ", "a", " ", "o", "r", " ", "d", "e", "f", "n", "a", "m", "e", ":", " ", "b">>
      [] name = <<"s">> ->
           \* s: 'defname: s' (refers to itself)
           <<"d", "e", "f", "n", "a", "m", "e", ":", " ", "s">>
      [] name = <<"p">> ->
           \* p: 'defname: q' (p and q refer to each other)
           <<"d", "e", "f", "n", "a", "m", "e", ":", " ", "q">>
      [] name = <<"q">> ->
           \* q: 'defname: p'
           <<"d", "e", "f", "n", "a", "m", "e", ":", " ", "p">>
      [] name = <<"m">> ->
           \* m: 'defname : a' (a space before the colon)
           <<"d", "e", "f", "n", "a", "m", "e", " ", ":", " ", "a">>
      [] name = <<"t">> ->
           \* t: 'defname:' (ends right after the keyword)
           <<"d", "e", "f", "n", "a", "m", "e", ":">>
      [] OTHER ->
           \* k: 'defname: d' (references the non-migratable d)
           <<"d", "e", "f", "n", "a", "m", "e", ":", " ", "d">>

\* samweb1.descDefinitionDict(defn); definition a has no description
DefDict(name) ==
    [defname |-> name, dimensions |-> DimOf(name), username |-> "alice", group |-> "sbnd"]
        @@ (IF name = <<"a">> THEN <<>> ELSE [description |-> "src"])

SourceDefs == [name \in DefNames |-> DefDict(name)]

\* A definition the target held before the run, made there under the same name.
TgtOwn(name) ==
    [dimensions |-> DimOf(name), user |-> "bob", group |-> "sbn", description |-> "tgt"]

NoDStats == [nsource |-> 0, ntarget |-> 0, nadded |-> 0, nskipped |-> 0]

DefsIdle ==
    /\ dpc = "idle"
    /\ dargs = [definition |-> NoDef, ndefs |-> 0]
    /\ srcDefs = <<>>
    /\ tgtDefs = <<>>
    /\ tgtDefs0 = <<>>
    /\ defsd = {}
    /\ dstack = <<>>
    /\ dstats = NoDStats
    /\ dcalls = <<>>

\* What the catalogs may hold before the run.
InitDefs ==
    /\ dpc = "idle"
    /\ dargs = [definition |-> NoDef, ndefs |-> 0]
    /\ srcDefs = SourceDefs
    /\ \E held \in SUBSET {<<"a">>, <<"b">>, <<"d">>} : tgtDefs = [name \in held |-> TgtOwn(name)]
    /\ tgtDefs0 = tgtDefs
    /\ defsd = {}
    /\ dstack = <<>>
    /\ dstats = NoDStats
    /\ dcalls = <<>>

\* The values of option -d tried: none, every source definition, and x.
DefChoices == {NoDef, <<"x">>} \cup DefNames

\* A fresh activation of check_definition(defn).
DFrame(defn) ==
    [defn |-> defn, pc |-> "start", defdict |-> <<>>, subdefs |-> <<>>, k |-> 1,
     result |-> FALSE]

DTop == dstack[Len(dstack)]
SetDTop(fr) == [dstack EXCEPT ![Len(dstack)] = fr]
InDef(p) == dpc = "loop" /\ dstack # <<>> /\ DTop.pc = p

defsOnly == UNCHANGED <<fileVars, userVars, locVars, engines, cksums>>

\* lines 238-284: parse -d and -n, list both catalogs, defsd = defs1 - defs2
DStart ==
    /\ dpc = "idle"
    /\ \E d \in DefChoices, n \in 0..MaxNDefs :
          LET defs1 == IF d # NoDef THEN {d} ELSE DOMAIN srcDefs
              defs2 == DOMAIN tgtDefs
          IN  /\ dargs' = [definition |-> d, ndefs |-> n]
              /\ defsd' = defs1 \ defs2
              /\ dstats' = [NoDStats EXCEPT !.nsource = Cardinality(defs1),
                                            !.ntarget = Cardinality(defs2)]
    /\ dpc' = "loop"
    /\ tgtDefs0' = tgtDefs
    /\ UNCHANGED <<srcDefs, tgtDefs, dstack, dcalls>>
    /\ defsOnly

\* line 289-290: the next definition of defsd, in the order the set gives
DNextDef ==
    /\ dpc = "loop"
    /\ dstack = <<>>
    /\ \E defn \in defsd :
          /\ dstack' = <<DFrame(defn)>>
          /\ defsd' = defsd \ {defn}
    /\ UNCHANGED <<dpc, dargs, srcDefs, tgtDefs, tgtDefs0, dstats, dcalls>>
    /\ defsOnly

\* lines 141-149: the definition as the source has it; failure if it has none
DDescribeSource ==
    /\ InDef("start")
    /\ Len(dstack) < MaxDepth
    /\ IF DTop.defn \in DOMAIN srcDefs
       THEN dstack' = SetDTop([DTop EXCEPT !.defdict = srcDefs[DTop.defn], !.pc = "target"])
       ELSE dstack' = SetDTop([DTop EXCEPT !.result = FALSE, !.pc = "ret"])
    /\ UNCHANGED <<dpc, dargs, srcDefs, tgtDefs, tgtDefs0, defsd, dstats, dcalls>>
    /\ defsOnly

\* DDescribeTarget without the early return for a definition the target holds.
DDescribeTarget_NoExistsCheck ==
    /\ InDef("target")
    /\ dstack' = SetDTop([DTop EXCEPT !.pc = "dims"])
    /\ UNCHANGED <<dpc, dargs, srcDefs, tgtDefs, tgtDefs0, defsd, dstats, dcalls>>
    /\ defsOnly

\* lines 154-162: success at once if the target holds a definition of that name
DDescribeTarget ==
    /\ InDef("target")
    /\ IF DTop.defn \in DOMAIN tgtDefs
       THEN dstack' = SetDTop([DTop EXCEPT !.result = TRUE, !.pc = "ret"])
       ELSE dstack' = SetDTop([DTop EXCEPT !.pc = "dims"])
    /\ UNCHANGED <<dpc, dargs, srcDefs, tgtDefs, tgtDefs0, defsd, dstats, dcalls>>
    /\ defsOnly

\* DCheckDims that extracts the sub-definitions whatever dim_ok is.
DCheckDims_NoGuard ==
    /\ InDef("dims")
    /\ LET dim == DTop.defdict["dimensions"]
           r == extract_definitions(dim)
       IN  /\ dstats' = IF DimOk(dim) THEN dstats ELSE [dstats EXCEPT !.nskipped = @ + 1]
           /\ dstack' = SetDTop([DTop EXCEPT !.subdefs = r.result, !.k = 1, !.pc = "subdefs"])
           /\ dpc' = dpc
    /\ UNCHANGED <<dargs, srcDefs, tgtDefs, tgtDefs0, defsd, dcalls>>
    /\ defsOnly

\* lines 167-207: a non-migratable dimension counts as skipped and fails;
\* otherwise the embedded definitions are extracted
DCheckDims ==
    /\ InDef("dims")
    /\ LET dim == DTop.defdict["dimensions"]
           r == extract_definitions(dim)
       IN  IF ~DimOk(dim)
           THEN /\ dstats' = [dstats EXCEPT !.nskipped = @ + 1]
                /\ dstack' = SetDTop([DTop EXCEPT !.result = FALSE, !.pc = "ret"])
                /\ dpc' = dpc
           ELSE /\ dstats' = dstats
                /\ CASE r.status = "ok" ->
                          /\ dstack' = SetDTop([DTop EXCEPT !.subdefs = r.result, !.k = 1,
                                                            !.pc = "subdefs"])
                          /\ dpc' = dpc
                     [] r.status = "IndexError" -> dpc' = "aborted" /\ dstack' = dstack
                     [] OTHER -> dpc' = "hung" /\ dstack' = dstack
    /\ UNCHANGED <<dargs, srcDefs, tgtDefs, tgtDefs0, defsd, dcalls>>
    /\ defsOnly

\* lines 208-209: check_definition of the next embedded definition
DCheckSubdef ==
    /\ InDef("subdefs")
    /\ DTop.k <= Len(DTop.subdefs)
    /\ dstack' = Append(SetDTop([DTop EXCEPT !.pc = "wait"]), DFrame(DTop.subdefs[DTop.k]))
    /\ UNCHANGED <<dpc, dargs, srcDefs, tgtDefs, tgtDefs0, defsd, dstats, dcalls>>
    /\ defsOnly

\* samweb2.createDefinition(defname, dim, user, group, description)
DefinitionCreated(tgt, defname, dim, user, group, desc) ==
    (defname :> [dimensions |-> dim, user |-> user, group |-> group, description |-> desc])
        @@ tgt

\* defdict[key] if present, else None (lines 169-177)
Opt(defdict, key) == IF key \in DOMAIN defdict THEN defdict[key] ELSE "None"

\* lines 215-220: every embedded definition succeeded
DCreate ==
    /\ InDef("subdefs")
    /\ DTop.k > Len(DTop.subdefs)
    /\ LET dd == DTop.defdict
       IN  /\ tgtDefs' = DefinitionCreated(tgtDefs, dd["defname"], dd["dimensions"],
                                           Opt(dd, "username"), Opt(dd, "group"),
                                           Opt(dd, "description"))
           /\ dcalls' = Append(dcalls, [op |-> "createDefinition", defname |-> dd["defname"],
                                        dim |-> dd["dimensions"]])
    /\ dstats' = [dstats EXCEPT !.nadded = @ + 1, !.ntarget = @ + 1]
    /\ dstack' = SetDTop([DTop EXCEPT !.result = TRUE, !.pc = "ret"])
    /\ UNCHANGED <<dpc, dargs, srcDefs, tgtDefs0, defsd>>
    /\ defsOnly

\* DReturn that goes on with the next embedded definition after a failure.
DReturn_IgnoresFailure ==
    /\ InDef("ret")
    /\ IF Len(dstack) > 1
       THEN LET caller == dstack[Len(dstack) - 1]
            IN  /\ dstack' = [Front(dstack) EXCEPT ![Len(dstack) - 1] =
                                 [caller EXCEPT !.k = @ + 1, !.pc = "subdefs"]]
                /\ dpc' = dpc
       ELSE /\ dstack' = <<>>
            /\ dpc' = IF dargs.ndefs > 0 /\ dstats.nadded >= dargs.ndefs THEN "done" ELSE dpc
    /\ UNCHANGED <<dargs, srcDefs, tgtDefs, tgtDefs0, defsd, dstats, dcalls>>
    /\ defsOnly

\* line 224: return result. To the loop over subdefs (lines 209-211), which
\* breaks on a failure, or to main (lines 290-292), which breaks once
\* ndefs definitions were added.
DReturn ==
    /\ InDef("ret")
    /\ IF Len(dstack) > 1
       THEN LET caller == dstack[Len(dstack) - 1]
            IN  /\ dstack' = [Front(dstack) EXCEPT ![Len(dstack) - 1] =
                                 IF DTop.result
                                 THEN [caller EXCEPT !.k = @ + 1, !.pc = "subdefs"]
                                 ELSE [caller EXCEPT !.result = FALSE, !.pc = "ret"]]
                /\ dpc' = dpc
       ELSE /\ dstack' = <<>>
            /\ dpc' = IF dargs.ndefs > 0 /\ dstats.nadded >= dargs.ndefs THEN "done" ELSE dpc
    /\ UNCHANGED <<dargs, srcDefs, tgtDefs, tgtDefs0, defsd, dstats, dcalls>>
    /\ defsOnly

\* lines 295-304: the loop is over; the summary is printed and main returns
DFinish ==
    /\ dpc = "loop"
    /\ dstack = <<>>
    /\ defsd = {}
    /\ dpc' = "done"
    /\ UNCHANGED <<dargs, srcDefs, tgtDefs, tgtDefs0, defsd, dstack, dstats, dcalls>>
    /\ defsOnly

NextDefs ==
    \/ DStart
    \/ DNextDef
    \/ DDescribeSource
    \/ DDescribeTarget
    \/ DCheckDims
    \/ DCheckSubdef
    \/ DCreate
    \/ DReturn
    \/ DFinish

-----------------------------------------------------------------------------
\* migrate_sam_locations.py: main() and check_locations(). The script shares
\* the two catalogs with migrate_sam_files.py and writes target locations only.

\* Largest value of option --niter of migrate_sam_locations.py tried.
MaxLocIter == 2

NoLArgs == [filename |-> "", nfiles |-> 0, niter |-> 0, doscratch |-> FALSE]
NoLCur == [f |-> "", j |-> 1, locs2 |-> <<>>]
NoLStats == [nqueried |-> 0, nlocations |-> 0]

LocsIdle ==
    /\ lpc = "idle"
    /\ largs = NoLArgs
    /\ lfiles = <<>>
    /\ lcur = NoLCur
    /\ lstats = NoLStats
    /\ lcalls = <<>>

\* Locations the target may hold for f before the run: none, the location of
\* the source, a location of the same full path under another location string
\* (a tape label), or the same location string with another full path.
TgtLocVariants == {"none", "same", "label", "moved"}

InitTgtLocs(f, variant) ==
    IF SrcLocs(f) = <<>> \/ variant = "none" THEN <<>>
    ELSE LET loc1 == Last(SrcLocs(f))
         IN  CASE variant = "same"  -> <<loc1>>
               [] variant = "label" -> <<[loc1 EXCEPT !.location = "enstore:/pnfs/tape(7@vr01)"]>>
               [] OTHER -> <<[loc1 EXCEPT !.full_path = <<"enstore:", "/pnfs", "/old/", f>>]>>

\* The catalogs before a run of migrate_sam_locations.py: the target holds
\* f1 and f3, and f2 or not.
InitLocs ==
    /\ srcParents = NoParents
    /\ srcRetired = {}
    /\ srcFlag = [f \in Files |-> NoFlag]
    /\ \E has2 \in BOOLEAN :
          tgtMeta = [f \in Files |->
                        IF f = "f2" /\ ~has2 THEN EmptyMd
                        ELSE InitTgtRecord(f, "same", srcParents, srcRetired, {})]
    /\ \E v1, v2 \in TgtLocVariants :
          tgtLocs = [f \in Files |->
                        CASE f = "f1" -> InitTgtLocs(f, v1)
                          [] f = "f2" -> InitTgtLocs(f, v2)
                          [] OTHER -> <<>>]
    /\ FilesIdle
    /\ LocsIdle

LocArgChoices ==
    { [filename |-> fn, nfiles |-> n, niter |-> k, doscratch |-> s] :
        fn \in {"", "f2"}, n \in 0..MaxNFiles, k \in 1..MaxLocIter, s \in BOOLEAN }

\* samweb1.listFiles(dim): one file or all files, 'with availability
\* physical' (files that have a location), at most nfiles of them
ListLocFiles(a) ==
    LET Candidate(f) == a.filename \in {"", f} /\ SrcLocs(f) # <<>>
        all == SelectSeq(FileList, Candidate)
    IN  IF a.nfiles > 0 THEN SubSeq(all, 1, Min(a.nfiles, Len(all))) ELSE all

locsOnly ==
    UNCHANGED <<srcParents, srcRetired, srcFlag, tgtMeta, pc, args, files, stack,
                queued_metadata1, stats, invalidLog, calls, enqueued, runs,
                userVars, defVars, engines, cksums>>

\* lines 140-189: parse the options
LStart ==
    /\ lpc = "idle"
    /\ \E a \in LocArgChoices : largs' = a
    /\ lpc' = "iter"
    /\ UNCHANGED <<tgtLocs, lfiles, lcur, lstats, lcalls>>
    /\ locsOnly

\* lines 193-199, 203-210: one pass of the iteration loop, or the summary
LIterate ==
    /\ lpc = "iter"
    /\ IF largs.niter > 0
       THEN LET fl == ListLocFiles(largs)
            IN  /\ largs' = [largs EXCEPT !.niter = @ - 1]
                /\ IF fl = <<>>
                   THEN lpc' = "done" /\ UNCHANGED <<lfiles, lstats>>
                   ELSE /\ lpc' = "files"
                        /\ lfiles' = fl
                        /\ lstats' = [lstats EXCEPT !.nqueried = @ + Len(fl)]
       ELSE lpc' = "done" /\ UNCHANGED <<largs, lfiles, lstats>>
    /\ UNCHANGED <<tgtLocs, lcur, lcalls>>
    /\ locsOnly

\* lines 200-201: for f in files: check_locations(...)
LNextFile ==
    /\ lpc = "files"
    /\ IF lfiles = <<>>
       THEN lpc' = "iter" /\ UNCHANGED <<lfiles, lcur>>
       ELSE /\ lcur' = [NoLCur EXCEPT !.f = Head(lfiles)]
            /\ lfiles' = Tail(lfiles)
            /\ lpc' = "locate"
    /\ UNCHANGED <<tgtLocs, largs, lstats, lcalls>>
    /\ locsOnly

\* lines 79-97: read both location lists; the target cannot locate a file it
\* does not hold, and check_locations returns False
LReadLocations ==
    /\ lpc = "locate"
    /\ IF tgtMeta[lcur.f] = EmptyMd
       THEN lpc' = "files" /\ UNCHANGED lcur
       ELSE lpc' = "loop" /\ lcur' = [lcur EXCEPT !.locs2 = tgtLocs[lcur.f], !.j = 1]
    /\ UNCHANGED <<tgtLocs, largs, lfiles, lstats, lcalls>>
    /\ locsOnly

\* lines 100-121: one source location
LCheckLocation ==
    /\ lpc = "loop"
    /\ lcur.j <= Len(SrcLocs(lcur.f))
    /\ LET loc1 == SrcLocs(lcur.f)[lcur.j]
       IN  IF ~(~largs.doscratch /\ IsScratch(loc1)) /\ ~LocMatch(loc1, lcur.locs2)
           THEN /\ tgtLocs' = [tgtLocs EXCEPT ![lcur.f] = Append(@, loc1)]
                /\ lcalls' = Append(lcalls, [db |-> "target", op |-> "addFileLocation",
                                             file |-> lcur.f, location |-> loc1.location])
                /\ lstats' = [lstats EXCEPT !.nlocations = @ + 1]
           ELSE UNCHANGED <<tgtLocs, lcalls, lstats>>
    /\ lcur' = [lcur EXCEPT !.j = @ + 1]
    /\ UNCHANGED <<lpc, largs, lfiles>>
    /\ locsOnly

\* LLocationsDone that marks the file as migrated in the source.
LLocationsDone_SetsFlag ==
    /\ lpc = "loop"
    /\ lcur.j > Len(SrcLocs(lcur.f))
    /\ lpc' = "files"
    /\ srcFlag' = [srcFlag EXCEPT ![lcur.f] = 0]
    /\ UNCHANGED <<tgtLocs, largs, lfiles, lcur, lstats, lcalls>>
    /\ UNCHANGED <<srcParents, srcRetired, tgtMeta, pc, args, files, stack,
                   queued_metadata1, stats, invalidLog, calls, enqueued, runs,
                   userVars, defVars, engines, cksums>>

\* line 128: return True
LLocationsDone ==
    /\ lpc = "loop"
    /\ lcur.j > Len(SrcLocs(lcur.f))
    /\ lpc' = "files"
    /\ UNCHANGED <<tgtLocs, largs, lfiles, lcur, lstats, lcalls>>
    /\ locsOnly

NextLocs ==
    \/ LStart
    \/ LIterate
    \/ LNextFile
    \/ LReadLocations
    \/ LCheckLocation
    \/ LLocationsDone

-----------------------------------------------------------------------------
\* migrate_sam_files.py with remote calls that raise an error.

\* check_metadata line 149: samweb1.getMetadata(f) raises. Neither
\* check_metadata, check_file nor main (lines 431-439) has a handler: the
\* process ends with the traceback, before the final flush and the summary.
GetMetadataFails ==
    /\ InCall("cm_start")
    /\ pc' = "aborted"
    /\ UNCHANGED <<catalogVars, args, files, stack, queued_metadata1, stats, invalidLog,
                   calls, enqueued, runs>>
    /\ userIdle

\* check_metadata lines 232-262: samweb2.getMetadata(f) raises for a file the
\* target holds. The bare except takes it for a file that is not declared:
\* md2 = {}, md_update is all of md1, and declareFile is called. The target
\* refuses to declare a file name it holds; nothing handles that error and
\* the process ends with the traceback.
GetTargetMetadataFails ==
    /\ InCall("cm_parents")
    /\ ~HasParentLeft(Top)
    /\ Top.parents_ok
    /\ tgtMeta[Top.f] # EmptyMd
    /\ calls' = Append(calls, [db |-> "target", op |-> "declareFile", file |-> Top.f,
                               md |-> MdUpdate(Top.md1, EmptyMd)])
    /\ pc' = "aborted"
    /\ UNCHANGED <<catalogVars, args, files, stack, queued_metadata1, stats, invalidLog,
                   enqueued, runs>>
    /\ userIdle

\* LocateFileFails that leaves the --invalid file alone.
LocateFileFails_NoLog ==
    /\ InCall("cl_start")
    /\ tgtMeta[Top.f] # EmptyMd
    /\ stack' = SetTop([Top EXCEPT !.ok = FALSE, !.pc = "cf_ret"])
    /\ UNCHANGED <<catalogVars, procVars, queued_metadata1, stats, invalidLog, calls, enqueued>>
    /\ userIdle

\* check_locations lines 282-301: samweb2.locateFile(f) raises for a file the
\* target holds; the handler takes it for a file that is not declared.
LocateFileFails ==
    /\ InCall("cl_start")
    /\ tgtMeta[Top.f] # EmptyMd
    /\ stack' = SetTop([Top EXCEPT !.ok = FALSE, !.pc = "cf_ret"])
    /\ invalidLog' = IF args.invalid THEN Append(invalidLog, Top.f) ELSE invalidLog
    /\ UNCHANGED <<catalogVars, procVars, queued_metadata1, stats, calls, enqueued>>
    /\ userIdle

\* main lines 404-412: a run with option --invalid <file>, all files, one
\* iteration; a file of that name left by an earlier run is removed.
StartRunInvalid ==
    /\ pc \in {"idle", "done"}
    /\ runs < MaxRuns
    /\ args' = [filename |-> "", nfiles |-> 0, niter |-> 1, invalid |-> TRUE]
    /\ pc' = "iter"
    /\ files' = <<>>
    /\ stack' = <<>>
    /\ queued_metadata1' = <<>>
    /\ stats' = NoStats
    /\ invalidLog' = <<>>
    /\ calls' = <<>>
    /\ enqueued' = <<>>
    /\ runs' = runs + 1
    /\ UNCHANGED catalogVars
    /\ userIdle

NextFaults ==
    \/ NextFiles
    \/ StartRunInvalid
    \/ GetMetadataFails
    \/ GetTargetMetadataFails
    \/ LocateFileFails

\* The catalogs before the runs with failing calls: nothing migrated yet.
InitFaults ==
    /\ srcParents = [NoParents EXCEPT !["f2"] = <<"f1">>]
    /\ srcRetired \in {{}, {"f1"}}
    /\ srcFlag = [f \in Files |-> NoFlag]
    /\ tgtMeta = [f \in Files |-> EmptyMd]
    /\ tgtLocs = [f \in Files |-> <<>>]
    /\ FilesIdle

-----------------------------------------------------------------------------
\* Two runs of "migrate_sam_files.py --file <f>" at the same time, against
\* the same two catalogs. Each run is a process of its own, with its own
\* frame of check_file and its own metadata queue; nothing but the catalogs
\* is shared, and the script takes no lock. The files have no parents, so
\* check_file does not recurse. `calls` is the history of both runs.

Engines == {1, 2}

\* main after the options are parsed (niter = 1, no -n)
Engine(f) ==
    [filename |-> f, pc |-> "iter", niter |-> 1, fr |-> Frame(f),
     queued_metadata1 |-> <<>>, stats |-> NoStats]

EngineAt(e, p) == engines[e].pc = "files" /\ engines[e].fr.pc = p

raceOnly(changed) ==
    /\ UNCHANGED <<srcParents, srcRetired, pc, args, files, stack, queued_metadata1,
                   stats, invalidLog, enqueued, runs, userVars, defVars, locVars, cksums>>
    /\ \A v \in {"srcFlag", "tgtMeta", "tgtLocs", "calls"} \ changed :
          CASE v = "srcFlag" -> srcFlag' = srcFlag
            [] v = "tgtMeta" -> tgtMeta' = tgtMeta
            [] v = "tgtLocs" -> tgtLocs' = tgtLocs
            [] v = "calls"   -> calls' = calls

\* main lines 431-439: the one iteration; the query returns the file unless
\* its flag is 0 or 2
EIterate(e) ==
    /\ engines[e].pc = "iter"
    /\ LET en == engines[e]
           fl == ListFiles([filename |-> en.filename, nfiles |-> 0], srcFlag)
       IN  IF en.niter > 0
           THEN IF fl = <<>>
                THEN engines' = [engines EXCEPT ![e].niter = @ - 1, ![e].pc = "final"]
                ELSE engines' = [engines EXCEPT ![e].niter = @ - 1, ![e].pc = "files",
                                                ![e].fr = Frame(Head(fl)),
                                                ![e].stats.nqueried = @ + Len(fl)]
           ELSE engines' = [engines EXCEPT ![e].pc = "final"]
    /\ raceOnly({})

\* check_metadata lines 149-190, check_file lines 343-360 for flag 0 or 2
EReadSource(e) ==
    /\ EngineAt(e, "cm_start")
    /\ LET fr == engines[e].fr
           md == SourceMetadata(fr.f, srcParents, srcRetired, srcFlag)
           migrate == IF "sbn.migrate" \in DOMAIN md THEN md["sbn.migrate"] ELSE NoFlag
       IN  IF migrate \in {0, 2}
           THEN engines' = [engines EXCEPT ![e].fr.migrate = migrate,
                                           ![e].fr.ok = (migrate # 2),
                                           ![e].fr.pc = "cf_ret",
                                           ![e].pc = "iter"]
           ELSE engines' = [engines EXCEPT ![e].fr.migrate = migrate,
                                           ![e].fr.md1 = Prepared(md),
                                           ![e].fr.pc = "cm_parents"]
    /\ raceOnly({})

\* check_metadata lines 232-237: md2 = samweb2.getMetadata(f), {} if absent
EReadTarget(e) ==
    /\ EngineAt(e, "cm_parents")
    /\ engines' = [engines EXCEPT ![e].fr.md2 = tgtMeta[engines[e].fr.f],
                                  ![e].fr.pc = "cm_write"]
    /\ raceOnly({})

\* EWriteTarget that decides between declare and update by the record the
\* target holds at the time of the write.
EWriteTarget_LooksAgain(e) ==
    /\ EngineAt(e, "cm_write")
    /\ LET fr == engines[e].fr
           md_update == MdUpdate(fr.md1, tgtMeta[fr.f])
       IN  IF DOMAIN md_update # {}
           THEN IF tgtMeta[fr.f] # EmptyMd
                THEN /\ tgtMeta' = [tgtMeta EXCEPT ![fr.f] = Modified(@, md_update)]
                     /\ calls' = Append(calls, [db |-> "target", op |-> "modifyFileMetadata",
                                                file |-> fr.f, md |-> md_update])
                     /\ engines' = [engines EXCEPT ![e].stats.nmodified = @ + 1,
                                                   ![e].fr.pc = "cl_start"]
                ELSE /\ tgtMeta' = [tgtMeta EXCEPT ![fr.f] = Declared(md_update)]
                     /\ calls' = Append(calls, [db |-> "target", op |-> "declareFile",
                                                file |-> fr.f, md |-> md_update])
                     /\ engines' = [engines EXCEPT ![e].stats.ndeclared = @ + 1,
                                                   ![e].fr.pc = "cl_start"]
           ELSE /\ engines' = [engines EXCEPT ![e].fr.pc = "cl_start"]
                /\ UNCHANGED <<tgtMeta, calls>>
    /\ raceOnly({"tgtMeta", "calls"})

\* check_metadata lines 244-264: md_update from the md2 that was read, then
\* update or declare. The target refuses to declare a file name it holds;
\* the error is not handled and ends the process.
EWriteTarget(e) ==
    /\ EngineAt(e, "cm_write")
    /\ LET fr == engines[e].fr
           md_update == MdUpdate(fr.md1, fr.md2)
       IN  IF DOMAIN md_update # {}
           THEN IF DOMAIN fr.md2 # {}
                THEN /\ tgtMeta' = [tgtMeta EXCEPT ![fr.f] = Modified(@, md_update)]
                     /\ calls' = Append(calls, [db |-> "target", op |-> "modifyFileMetadata",
                                                file |-> fr.f, md |-> md_update])
                     /\ engines' = [engines EXCEPT ![e].stats.nmodified = @ + 1,
                                                   ![e].fr.pc = "cl_start"]
                ELSE /\ calls' = Append(calls, [db |-> "target", op |-> "declareFile",
                                                file |-> fr.f, md |-> md_update])
                     /\ IF tgtMeta[fr.f] = EmptyMd
                        THEN /\ tgtMeta' = [tgtMeta EXCEPT ![fr.f] = Declared(md_update)]
                             /\ engines' = [engines EXCEPT ![e].stats.ndeclared = @ + 1,
                                                           ![e].fr.pc = "cl_start"]
                        ELSE /\ engines' = [engines EXCEPT ![e].pc = "aborted"]
                             /\ UNCHANGED tgtMeta
           ELSE /\ engines' = [engines EXCEPT ![e].fr.pc = "cl_start"]
                /\ UNCHANGED <<tgtMeta, calls>>
    /\ raceOnly({"tgtMeta", "calls"})

\* check_locations lines 279-301: read both location lists
EReadLocations(e) ==
    /\ EngineAt(e, "cl_start")
    /\ engines' = [engines EXCEPT ![e].fr.locs2 = tgtLocs[engines[e].fr.f],
                                  ![e].fr.j = 1,
                                  ![e].fr.pc = "cl_loop"]
    /\ raceOnly({})

\* check_locations lines 304-325: one source location. The target keeps one
\* copy of a location that is added twice.
ECheckLocation(e) ==
    /\ EngineAt(e, "cl_loop")
    /\ LET fr == engines[e].fr
       IN  /\ fr.j <= Len(SrcLocs(fr.f))
           /\ LET loc1 == SrcLocs(fr.f)[fr.j]
              IN  IF ~IsScratch(loc1) /\ ~LocMatch(loc1, fr.locs2)
                  THEN /\ tgtLocs' = [tgtLocs EXCEPT ![fr.f] =
                                         IF LocMatch(loc1, @) THEN @ ELSE Append(@, loc1)]
                       /\ calls' = Append(calls, [db |-> "target", op |-> "addFileLocation",
                                                  file |-> fr.f, location |-> loc1.location])
                       /\ engines' = [engines EXCEPT ![e].stats.nlocations = @ + 1,
                                                     ![e].fr.j = @ + 1]
                  ELSE /\ engines' = [engines EXCEPT ![e].fr.j = @ + 1]
                       /\ UNCHANGED <<tgtLocs, calls>>
    /\ raceOnly({"tgtLocs", "calls"})

\* check_file lines 347-360: queue sbn.migrate = 0 in the queue of this
\* process and return to the loop of main
EEnqueueDone(e) ==
    /\ EngineAt(e, "cl_loop")
    /\ LET en == engines[e]
           r == Enqueued(en.queued_metadata1, FlagRecord(en.fr.f, 0), srcFlag, calls)
       IN  /\ en.fr.j > Len(SrcLocs(en.fr.f))
           /\ engines' = [engines EXCEPT ![e].queued_metadata1 = r.queued_metadata1,
                                         ![e].stats.nmigrated = @ + 1,
                                         ![e].fr.pc = "cf_ret",
                                         ![e].pc = "iter"]
           /\ srcFlag' = r.flag
           /\ calls' = r.calls
    /\ raceOnly({"srcFlag", "calls"})

\* flushMetadata(samweb1) after the iteration loop, then the summary
EFinalFlush(e) ==
    /\ engines[e].pc = "final"
    /\ LET r == Flushed(engines[e].queued_metadata1, srcFlag, calls)
       IN  /\ engines' = [engines EXCEPT ![e].queued_metadata1 = r.queued_metadata1,
                                         ![e].pc = "done"]
           /\ srcFlag' = r.flag
           /\ calls' = r.calls
    /\ raceOnly({"srcFlag", "calls"})

NextRace ==
    \E e \in Engines :
        \/ EIterate(e)
        \/ EReadSource(e)
        \/ EReadTarget(e)
        \/ EWriteTarget(e)
        \/ EReadLocations(e)
        \/ ECheckLocation(e)
        \/ EEnqueueDone(e)
        \/ EFinalFlush(e)

-----------------------------------------------------------------------------
\* Specifications: one for each script.

UsersIdle ==
    /\ upc = "idle"
    /\ uargs = NoUser
    /\ srcUsers = <<>>
    /\ tgtUsers = <<>>
    /\ tgtUsers0 = <<>>
    /\ utodo = {}
    /\ ucur = NoCur
    /\ ustats = NoUStats
    /\ ucalls = <<>>

Init == InitFiles /\ UsersIdle /\ DefsIdle /\ LocsIdle /\ engines = <<>> /\ cksums = NoCksums

Next == NextFiles

Spec == Init /\ [][Next]_vars


InitU == InitUsers /\ srcParents = NoParents /\ srcRetired = {}
            /\ srcFlag = [f \in Files |-> NoFlag]
            /\ tgtMeta = [f \in Files |-> EmptyMd]
            /\ tgtLocs = [f \in Files |-> <<>>]
            /\ FilesIdle /\ DefsIdle /\ LocsIdle /\ engines = <<>> /\ cksums = NoCksums

SpecUsers == InitU /\ [][NextUsers]_vars

\* No file is in the catalogs while the definitions are migrated.
NoFilesYet ==
    /\ srcParents = NoParents
    /\ srcRetired = {}
    /\ srcFlag = [f \in Files |-> NoFlag]
    /\ tgtMeta = [f \in Files |-> EmptyMd]
    /\ tgtLocs = [f \in Files |-> <<>>]
    /\ FilesIdle

InitD == InitDefs /\ NoFilesYet /\ UsersIdle /\ LocsIdle /\ engines = <<>> /\ cksums = NoCksums

SpecDefs == InitD /\ [][NextDefs]_vars

InitL == InitLocs /\ UsersIdle /\ DefsIdle /\ engines = <<>> /\ cksums = NoCksums

SpecLocs == InitL /\ [][NextLocs]_vars

InitF == InitFaults /\ UsersIdle /\ DefsIdle /\ LocsIdle /\ engines = <<>> /\ cksums = NoCksums

SpecFaults == InitF /\ [][NextFaults]_vars

\* Both runs are started; each was given f1 or f2. The target holds f1 or
\* not, with the same or another file_size.
InitRace ==
    /\ srcParents = NoParents
    /\ srcRetired = {}
    /\ srcFlag \in {[f \in Files |-> NoFlag], [f \in Files |-> IF f = "f1" THEN 1 ELSE NoFlag]}
    /\ \E v1 \in {"absent", "same", "size"} :
          tgtMeta = [f \in Files |->
                        IF f = "f1" THEN InitTgtRecord(f, v1, srcParents, srcRetired, {})
                        ELSE EmptyMd]
    /\ tgtLocs = [f \in Files |-> <<>>]
    /\ FilesIdle
    /\ engines \in [Engines -> {Engine("f1"), Engine("f2")}]
    /\ cksums = NoCksums
    /\ UsersIdle /\ DefsIdle /\ LocsIdle

SpecRace == InitRace /\ [][NextRace]_vars

-----------------------------------------------------------------------------
\* Catalogs that the specifications above leave out: definitions and files
\* on a reference cycle, and dimensions with a space before a colon or with
\* nothing behind the keyword. Either script is run on them, not both.

\* DRecursionFails that takes the definition for migrated.
DRecursionFails_Succeeds ==
    /\ InDef("start")
    /\ Len(dstack) >= MaxDepth
    /\ dstack' = SetDTop([DTop EXCEPT !.result = TRUE, !.pc = "ret"])
    /\ UNCHANGED <<dpc, dargs, srcDefs, tgtDefs, tgtDefs0, defsd, dstats, dcalls>>
    /\ defsOnly

\* check_definition lines 141-149 at the depth the interpreter allows:
\* samweb1.descDefinitionDict cannot nest its own calls, RecursionError is
\* raised inside the try, the bare except takes it for a definition the
\* source does not have, and check_definition returns False.
DRecursionFails ==
    /\ InDef("start")
    /\ Len(dstack) >= MaxDepth
    /\ dstack' = SetDTop([DTop EXCEPT !.result = FALSE, !.pc = "ret"])
    /\ UNCHANGED <<dpc, dargs, srcDefs, tgtDefs, tgtDefs0, defsd, dstats, dcalls>>
    /\ defsOnly

\* check_metadata line 149 at the depth the interpreter allows:
\* samweb1.getMetadata raises RecursionError outside any try; neither
\* check_metadata, check_file nor main handles it and the process ends with
\* the traceback, before the final flush.
FRecursionFails ==
    /\ InCall("cm_start")
    /\ Len(stack) >= MaxDepth
    /\ pc' = "aborted"
    /\ UNCHANGED <<catalogVars, args, files, stack, queued_metadata1, stats, invalidLog,
                   calls, enqueued, runs>>
    /\ userIdle

NextHazards ==
    \/ NextDefs
    \/ DRecursionFails
    \/ NextFiles
    \/ FRecursionFails

\* Either the source holds some definitions, among them s, p and q, m or t,
\* and the file migrator has ended; or f1 is its own parent, or f1 and f2
\* are parents of each other (with f3 their child or on its own), and the
\* definition migrator has ended. Nothing is in the target.
InitHazards ==
    /\ tgtMeta = [f \in Files |-> EmptyMd]
    /\ tgtLocs = [f \in Files |-> <<>>]
    /\ srcFlag = [f \in Files |-> NoFlag]
    /\ args = NoArgs /\ files = <<>> /\ stack = <<>> /\ queued_metadata1 = <<>>
    /\ stats = NoStats /\ invalidLog = <<>> /\ calls = <<>> /\ enqueued = <<>>
    /\ dargs = [definition |-> NoDef, ndefs |-> 0]
    /\ tgtDefs = <<>> /\ tgtDefs0 = <<>> /\ defsd = {} /\ dstack = <<>>
    /\ dstats = NoDStats /\ dcalls = <<>>
    /\ \/ /\ dpc = "idle"
          /\ \E held \in { {<<"a">>, <<"b">>, <<"s">>}, {<<"a">>, <<"p">>, <<"q">>},
                            {<<"a">>, <<"d">>, <<"m">>}, {<<"a">>, <<"t">>} } :
                srcDefs = [name \in held |-> DefDict(name)]
          /\ pc = "done" /\ runs = MaxRuns
          /\ srcParents = NoParents /\ srcRetired = {}
       \/ /\ pc = "idle" /\ runs = 0
          /\ srcParents \in { [NoParents EXCEPT !["f1"] = <<"f1">>],
                               [NoParents EXCEPT !["f1"] = <<"f2">>, !["f2"] = <<"f1">>],
                               [NoParents EXCEPT !["f1"] = <<"f2">>, !["f2"] = <<"f1">>,
                                                 !["f3"] = <<"f1">>] }
          /\ srcRetired \in {{}, {"f1"}}
          /\ dpc = "done" /\ srcDefs = <<>>
    /\ UsersIdle /\ LocsIdle /\ engines = <<>> /\ cksums = NoCksums

SpecHazards == InitHazards /\ [][NextHazards]_vars

-----------------------------------------------------------------------------
\* The checksum fix-up of check_metadata (lines 175-190), applied to checksum
\* lists the catalogs of the other specifications do not hold.

\* md5 values that are empty, short, one short of the width, of the width
\* and longer; other kinds of checksum; strings that nearly start with 'md5:'
ChecksumSamples ==
    LET Md5Of(n) == Md5Prefix \o [i \in 1..n |-> IF i = 1 THEN "1" ELSE "a"]
    IN  { Md5Of(0), Md5Of(1), Md5Of(3), Md5Of(Md5Width - 1), Md5Of(Md5Width),
          Md5Of(Md5Width + 1),
          <<"a", "d", "l", "e", "r", "3", "2", ":", "1">>,
          <<"m", "d", "5">>,
          <<"M", "D", "5", ":", "1">>,
          <<"x", "m", "d", "5", ":", "1">> }

InitChecksum ==
    /\ cksums \in { [input |-> l, output |-> <<>>, done |-> FALSE] :
                       l \in UNION { [1..n -> ChecksumSamples] : n \in 0..MaxChecksums } }
    /\ NoFilesYet /\ UsersIdle /\ DefsIdle /\ LocsIdle /\ engines = <<>>

\* lines 164-190 on a source record with this checksum list
FixUpChecksums ==
    /\ ~cksums.done
    /\ cksums' = [cksums EXCEPT
                     !.output = Prepared([file_name |-> "f1",
                                          checksum |-> cksums.input])["checksum"],
                     !.done = TRUE]
    /\ UNCHANGED <<fileVars, userVars, defVars, locVars, engines>>

SpecChecksum == InitChecksum /\ [][FixUpChecksums]_vars

-----------------------------------------------------------------------------
\* Properties.

RECURSIVE BulkRecs(_)
\* the record lists of the bulk updates among the calls cs, in call order
BulkRecs(cs) ==
    IF cs = <<>> THEN <<>>
    ELSE (IF Head(cs).op = "modifyMetadata" THEN <<Head(cs).recs>> ELSE <<>>)
            \o BulkRecs(Tail(cs))

NewCall == Len(calls') = Len(calls) + 1 /\ Front(calls') = calls
IsTargetCall(c, op, f) == c.db = "target" /\ c.op = op /\ c.file = f
Present(tgt, f) == tgt[f] # EmptyMd

C2_ParentBeforeChild ==
    [][\A f \in Files :
          (NewCall /\ IsTargetCall(Last(calls'), "declareFile", f))
             => \A p \in SeqToSet(srcParents[f]) : Present(tgtMeta, p)]_vars

\* C2 witness: a file with two parents has just been declared, and one of
\* its parents was declared in the same run.
C2_Witness ==
    /\ calls # <<>>
    /\ \E f \in Files :
          /\ IsTargetCall(Last(calls), "declareFile", f)
          /\ Len(srcParents[f]) = 2
          /\ \E n \in 1..(Len(calls) - 1) :
                \E p \in SeqToSet(srcParents[f]) : IsTargetCall(calls[n], "declareFile", p)

Names(recs) == [n \in 1..Len(recs) |-> recs[n]["file_name"]]

\* check_file has succeeded for f: its flag update is queued or written
Succeeded(f) == srcFlag[f] = 0 \/ f \in SeqToSet(Names(enqueued))

\* C3 (idempotence), as claimed: while check_file works on a file for which it
\* has succeeded before, it issues no remote write and queues no update.
C3_Idempotent ==
    [][(stack # <<>> /\ Succeeded(Top.f))
          => (calls' = calls /\ enqueued' = enqueued /\ UNCHANGED catalogVars)]_vars


TargetUpdate(f, md) ==
    [db |-> "target", op |-> "modifyFileMetadata", file |-> f, md |-> md]

\* C4 (minimal diff), as claimed: for a file with a target record the update
\* holds exactly the prepared source fields that the target lacks or holds
\* with another value, and no update is sent when there is none.
C4_DiffOfAllFields ==
    [][(InCall("cm_write") /\ DOMAIN Top.md2 # {})
          => LET md1 == Top.md1
                 md2 == Top.md2
                 diff == {k \in DOMAIN md1 : k \notin DOMAIN md2 \/ md2[k] # md1[k]}
             IN  IF diff = {} THEN calls' = calls
                 ELSE NewCall /\ Last(calls') = TargetUpdate(Top.f, Restrict(md1, diff))]_vars

\* C4 amended: the update holds exactly the prepared source fields that the
\* target lacks, or that are neither 'parents' nor 'user' and differ in value;
\* no update is sent when there is no such field.
C4_MinimalDiff ==
    [][(InCall("cm_write") /\ DOMAIN Top.md2 # {})
          => LET md1 == Top.md1
                 md2 == Top.md2
                 diff == {k \in DOMAIN md1 :
                             \/ k \notin DOMAIN md2
                             \/ k \notin {"parents", "user"} /\ md2[k] # md1[k]}
             IN  IF diff = {} THEN calls' = calls
                 ELSE NewCall /\ Last(calls') = TargetUpdate(Top.f, Restrict(md1, diff))]_vars

\* C4 witness: source and target differed in one field, and the update just
\* sent holds that field alone.
C4_Witness ==
    /\ InCall("cl_start")
    /\ calls # <<>>
    /\ Last(calls) = TargetUpdate(Top.f, [file_size |-> 10])
    /\ Top.md2["file_size"] = 11

C6_Additive ==
    /\ \A u \in DOMAIN tgtUsers0 :
          /\ u \in DOMAIN tgtUsers
          /\ tgtUsers0[u].groups \subseteq tgtUsers[u].groups
          /\ tgtUsers0[u].grid_subjects \subseteq tgtUsers[u].grid_subjects
    /\ \A n \in 1..Len(ucalls) : ucalls[n].op \in {"addUser", "addgroups", "addgridsubject"}

\* C6 witness: the run is over and has added groups and grid subjects to a
\* user that had a group and a grid subject unknown to the source.
C6_Witness ==
    /\ upc = "done"
    /\ \E u \in DOMAIN tgtUsers0 :
          /\ "g3" \in tgtUsers0[u].groups
          /\ "s3" \in tgtUsers0[u].grid_subjects
          /\ tgtUsers[u].groups # tgtUsers0[u].groups
          /\ tgtUsers[u].grid_subjects # tgtUsers0[u].grid_subjects

\* C7 (queue threshold): after an enqueue the queue holds at most 21 records;
\* the enqueue that would make it 22 sends all 22 in one bulk update and
\* empties the queue, any other enqueue only appends.
C7_QueueThreshold ==
    [][(Len(enqueued') = Len(enqueued) + 1)
          => LET q1 == Append(queued_metadata1, Last(enqueued'))
             IN  /\ Len(queued_metadata1') <= 21
                 /\ IF Len(q1) > 21
                    THEN queued_metadata1' = <<>> /\ NewCall /\ Last(calls') = BulkCall(q1)
                    ELSE queued_metadata1' = q1 /\ calls' = calls]_vars

\* C7 witness: in the middle of a run the 22nd record has just been queued
\* and the implicit flush has sent 22 records.
C7_Witness ==
    /\ InCall("cf_ret")
    /\ queued_metadata1 = <<>>
    /\ calls # <<>>
    /\ Last(calls).op = "modifyMetadata"
    /\ Len(Last(calls).recs) = 22
    /\ Last(Last(calls).recs) = Last(enqueued)

\* C8 (flush): a step that sends a bulk update sends one, non-empty, made of
\* the records queued since the previous bulk update in their order, and
\* leaves the queue empty; the final flush of an empty queue sends nothing.
C8_FlushExact ==
    [][/\ (calls' # calls /\ calls' # <<>> /\ Last(calls').op = "modifyMetadata")
            => /\ NewCall
               /\ Last(calls').recs # <<>>
               /\ Flatten(BulkRecs(calls')) = enqueued'
               /\ queued_metadata1' = <<>>
       /\ (pc = "final")
            => /\ queued_metadata1' = <<>>
               /\ queued_metadata1 = <<>> => calls' = calls
               /\ queued_metadata1 # <<>> => calls' # calls /\ Last(calls').op = "modifyMetadata"]_vars

\* C8 witness: the run ended with a second bulk update that sent several
\* records queued after the first one.
C8_Witness ==
    /\ pc = "done"
    /\ Len(BulkRecs(calls)) = 2
    /\ Len(Last(calls).recs) > 1
    /\ Last(calls).op = "modifyMetadata"

\* C9 (flush at end of run): when a run has ended the queue is empty and every
\* record queued in the run has been sent to the source.
C9_FlushedAtEnd ==
    pc = "done" => queued_metadata1 = <<>> /\ Flatten(BulkRecs(calls)) = enqueued

\* C9 witness: a run has ended whose records were all sent by the final flush.
C9_Witness ==
    /\ pc = "done"
    /\ enqueued # <<>>
    /\ BulkRecs(calls) = <<enqueued>>
    /\ \A n \in 1..Len(enqueued) : srcFlag[enqueued[n]["file_name"]] = 0

\* C10, as claimed: whenever an iteration of the driver has ended (main is
\* back at the head of the iteration loop), the queue is empty.
C10_DrainedPerIteration ==
    pc = "iter" => queued_metadata1 = <<>>

-----------------------------------------------------------------------------
\* Properties of migrate_sam_definitions.py.

RECURSIVE Ascending(_)
\* the numbers of S in ascending order
Ascending(S) ==
    IF S = {} THEN <<>>
    ELSE LET m == CHOOSE x \in S : \A y \in S : x <= y
         IN  <<m>> \o Ascending(S \ {m})

\* The sub-definitions a dimension expression refers to: the word that follows
\* each occurrence of 'defname:', left to right.
Referenced(dim) ==
    LET kw == <<"d", "e", "f", "n", "a", "m", "e", ":">>
        at == Ascending({i \in 1..(Len(dim) - Len(kw) + 1) :
                            SubSeq(dim, i, i + Len(kw) - 1) = kw})
    IN  [n \in 1..Len(at) |-> FirstWord(SubSeq(dim, at[n] + Len(kw), Len(dim)))]

\* C11 (missing sub-definition), as claimed: when the run for one definition
\* that the target lacked and that refers to a sub-definition unknown to the
\* source has ended, the definition is not in the target, nothing was created
\* and the skipped counter is at least 1.
C11_MissingSubdefCounted ==
    \A d \in DOMAIN srcDefs :
        (/\ dpc = "done"
         /\ dargs.definition = d
         /\ d \notin DOMAIN tgtDefs0
         /\ \E t \in SeqToSet(Referenced(srcDefs[d]["dimensions"])) : t \notin DOMAIN srcDefs)
        => /\ d \notin DOMAIN tgtDefs
           /\ dcalls = <<>>
           /\ dstats.nskipped >= 1

\* C12 (existing definitions): while check_definition works on a name that
\* both catalogs hold it writes to neither catalog, calls nothing else and
\* returns success; no step changes a definition the target holds.
C12_ExistingUntouched ==
    [][/\ (/\ dpc = "loop" /\ dstack # <<>>
           /\ DTop.pc \in {"start", "target"}
           /\ DTop.defn \in DOMAIN srcDefs
           /\ DTop.defn \in DOMAIN tgtDefs)
          => /\ srcDefs' = srcDefs /\ tgtDefs' = tgtDefs /\ dcalls' = dcalls
             /\ dstats' = dstats
             /\ Len(dstack') = Len(dstack)
             /\ DTop'.pc \in {"target", "ret"}
             /\ DTop'.pc = "ret" => DTop'.result
       /\ \A d \in DOMAIN tgtDefs : d \in DOMAIN tgtDefs' /\ tgtDefs'[d] = tgtDefs[d]]_vars

\* C12 witness: the recursion reached definition d, which has a non-migratable
\* dimension and which the target held before the run, and returned success.
C12_Witness ==
    /\ InDef("ret")
    /\ Len(dstack) > 1
    /\ DTop.defn = <<"d">>
    /\ DTop.result
    /\ ~DimOk(srcDefs[DTop.defn]["dimensions"])
    /\ tgtDefs0[DTop.defn] = tgtDefs[DTop.defn]
    /\ dcalls = <<>>

\* C13 (non-migratable dimensions): when check_definition finds one of the
\* listed identifiers in the dimensions of a definition the target lacks, it
\* adds exactly 1 to the skipped counter, creates nothing, calls
\* check_definition for no sub-definition and returns failure.
C13_DenylistedSkipped ==
    [][(InDef("dims") /\ \E n \in 1..Len(ids) : StrFind(DTop.defdict["dimensions"], ids[n]) >= 0)
          => /\ dstats'.nskipped = dstats.nskipped + 1
             /\ dstats'.nadded = dstats.nadded
             /\ tgtDefs' = tgtDefs /\ dcalls' = dcalls
             /\ Len(dstack') = Len(dstack)
             /\ DTop'.pc = "ret" /\ ~DTop'.result]_vars

\* C13 witness: definition e, which refers to definition a and has a
\* non-migratable dimension, has failed and was counted; a is still unknown
\* to the target.
C13_Witness ==
    /\ InDef("ret")
    /\ DTop.defn = <<"e">>
    /\ ~DTop.result
    /\ dstats.nskipped = 1
    /\ Referenced(DTop.defdict["dimensions"]) = << <<"a">> >>
    /\ <<"a">> \notin DOMAIN tgtDefs
    /\ dcalls = <<>>

\* C14 (dependency closure): a step that creates a definition in the target
\* finds every sub-definition its dimensions refer to in the target already;
\* when check_definition of a sub-definition returns failure, the caller
\* creates nothing and returns failure as well.
C14_DependencyClosure ==
    [][/\ \A d \in DOMAIN tgtDefs' \ DOMAIN tgtDefs :
             \A t \in SeqToSet(Referenced(tgtDefs'[d].dimensions)) : t \in DOMAIN tgtDefs
       /\ (InDef("ret") /\ Len(dstack) > 1 /\ ~DTop.result)
             => /\ tgtDefs' = tgtDefs /\ dcalls' = dcalls
                /\ Len(dstack') = Len(dstack) - 1
                /\ DTop'.pc = "ret" /\ ~DTop'.result
                /\ DTop'.defn \notin DOMAIN tgtDefs']_vars

\* C14 witness: definition b was just created, after definition a, to which
\* it refers, was created in the same run.
C14_Witness ==
    /\ Len(dcalls) >= 2
    /\ Last(dcalls).defname = <<"b">>
    /\ dcalls[Len(dcalls) - 1].defname = <<"a">>
    /\ <<"a">> \notin DOMAIN tgtDefs0
    /\ Referenced(tgtDefs[<<"b">>].dimensions) = << <<"a">> >>

\* C15 (sub-definitions found), as claimed: the names check_definition calls
\* itself for are the words that follow each 'defname:' of the dimensions,
\* one per occurrence, left to right.
C15_ExactTokens ==
    \A n \in 1..Len(dstack) :
        dstack[n].pc \in {"subdefs", "wait"}
            => dstack[n].subdefs = Referenced(dstack[n].defdict["dimensions"])

-----------------------------------------------------------------------------
\* Properties of migrate_sam_files.py and migrate_sam_locations.py.

HasRetiredParent(f) == \E p \in SeqToSet(srcParents[f]) : p \in srcRetired

IsFlagTwoCall(c, f) ==
    c = [db |-> "source", op |-> "modifyFileMetadata", file |-> f, md |-> ("sbn.migrate" :> 2)]

\* C16 (retired parent): when the parents loop of check_metadata has ended
\* for a file with a retired parent, the next step writes flag 2 for the file
\* to the source at once, leaving the queue as it is, and check_file returns
\* failure; no call to the target names the file and no flag update for it
\* is queued.
C16_RetiredParentInvalid ==
    [][\A f \in Files : HasRetiredParent(f) =>
          /\ (InCall("cm_parents") /\ Top.f = f /\ ~HasParentLeft(Top))
                => /\ NewCall /\ IsFlagTwoCall(Last(calls'), f)
                   /\ srcFlag' = [srcFlag EXCEPT ![f] = 2]
                   /\ queued_metadata1' = queued_metadata1 /\ enqueued' = enqueued
                   /\ Top'.pc = "cf_ret" /\ ~Top'.ok
          /\ (InCall("cf_ret") /\ Top.f = f) => ~Top.ok
          /\ \A n \in 1..Len(calls') : calls'[n].db = "target" => calls'[n].file # f
          /\ f \notin SeqToSet(Names(enqueued'))
          /\ tgtMeta'[f] = tgtMeta[f] /\ tgtLocs'[f] = tgtLocs[f]]_vars

\* C16 witness: flag 2 was just written for a file whose second parent is
\* retired, while the flag update of its first parent waits in the queue.
C16_Witness ==
    /\ InCall("cf_ret")
    /\ HasRetiredParent(Top.f)
    /\ calls # <<>>
    /\ IsFlagTwoCall(Last(calls), Top.f)
    /\ srcFlag[Top.f] = 2
    /\ ~Present(tgtMeta, Top.f)
    /\ queued_metadata1 # <<>>

\* the files reached from f through parent references; graphs have 3 files
Ancestors(f) ==
    LET Up(S) == S \cup UNION {SeqToSet(srcParents[g]) : g \in S}
    IN  Up(Up(SeqToSet(srcParents[f])))

\* C17 (flag 2 only for retired ancestors), as claimed: every file for which
\* flag 2 was written to the source has an ancestor that is retired.
C17_InvalidOnlyIfRetired ==
    \A n \in 1..Len(calls) : \A f \in Files :
        IsFlagTwoCall(calls[n], f) => Ancestors(f) \cap srcRetired # {}

\* C18 (remote errors), as claimed: a remote error ends the migration of one
\* candidate only, so main is never ended by it before the final flush and
\* the summary.
C18_ErrorAbortsEntityOnly ==
    pc # "aborted"

\* every source location of p that check_locations handles is in the target
LocsDone(p) ==
    \A n \in 1..Len(SrcLocs(p)) :
        \/ Find(SrcLocs(p)[n].full_path, ScratchMarker) > 0
        \/ \E k \in 1..Len(tgtLocs[p]) : tgtLocs[p][k].full_path = SrcLocs(p)[n].full_path

\* C19 (dependency first), as claimed: when a write for a file is sent to the
\* target, every parent of the file is in the target with its locations and
\* carries flag 0 in the source.
C19_DependencyComplete ==
    [][\A f \in Files :
          (NewCall /\ Last(calls').db = "target" /\ Last(calls').file = f)
             => \A p \in SeqToSet(srcParents[f]) :
                   Present(tgtMeta, p) /\ LocsDone(p) /\ srcFlag[p] = 0]_vars

\* C19 amended: when a write for a file is sent to the target, every parent of
\* the file is in the target with its locations, and the parent's flag update
\* has been sent to the source or waits in the queue.
C19_DependencyTargetFirst ==
    [][\A f \in Files :
          (NewCall /\ Last(calls').db = "target" /\ Last(calls').file = f)
             => \A p \in SeqToSet(srcParents[f]) :
                   /\ Present(tgtMeta, p) /\ LocsDone(p)
                   /\ \/ srcFlag[p] = 0
                      \/ \E n \in 1..Len(queued_metadata1) :
                            queued_metadata1[n] = FlagRecord(p, 0)]_vars

\* C19 witness: f2 was just declared; its parent f1 was declared and located
\* in the target earlier in the run, and the flag update of f1 is still queued.
C19_Witness ==
    /\ calls # <<>>
    /\ IsTargetCall(Last(calls), "declareFile", "f2")
    /\ srcParents["f2"] = <<"f1">>
    /\ \E n, k \in 1..Len(calls) :
          /\ n < k
          /\ IsTargetCall(calls[n], "declareFile", "f1")
          /\ IsTargetCall(calls[k], "addFileLocation", "f1")
    /\ srcFlag["f1"] # 0
    /\ queued_metadata1 = <<FlagRecord("f1", 0)>>

\* C20 (match by full path): for a source location that check_locations
\* handles, addFileLocation is called, with the location string of the source,
\* exactly when the target holds no location of the file with the same full
\* path; no step removes or changes a location of the target.
C20_MatchByFullPath ==
    [][/\ (lpc = "loop" /\ lcur.j <= Len(SrcLocs(lcur.f)))
          => LET f == lcur.f
                 loc1 == SrcLocs(f)[lcur.j]
                 handled == largs.doscratch \/ ~(Find(loc1.full_path, ScratchMarker) > 0)
                 held == \E n \in 1..Len(tgtLocs[f]) : tgtLocs[f][n].full_path = loc1.full_path
             IN  IF handled /\ ~held
                 THEN lcalls' = Append(lcalls, [db |-> "target", op |-> "addFileLocation",
                                                file |-> f, location |-> loc1.location])
                 ELSE lcalls' = lcalls /\ tgtLocs' = tgtLocs
       /\ \A f \in Files : \A n \in 1..Len(tgtLocs[f]) :
             n <= Len(tgtLocs'[f]) /\ tgtLocs'[f][n] = tgtLocs[f][n]]_vars

\* C20 witness: a location was just added for a file of which the target held
\* the same location string under another full path, and still holds it.
C20_Witness ==
    /\ lpc = "loop"
    /\ lcalls # <<>>
    /\ Last(lcalls).file = lcur.f
    /\ Len(tgtLocs[lcur.f]) = 2
    /\ tgtLocs[lcur.f][1].location = Last(lcalls).location
    /\ tgtLocs[lcur.f][2].location = Last(lcalls).location
    /\ tgtLocs[lcur.f][1].full_path # tgtLocs[lcur.f][2].full_path

-----------------------------------------------------------------------------
\* Properties: scratch locations, files the target cannot locate, the
\* location migrator, the user migrator.

ContainsScratch(path) == \E i \in 1..Len(path) : path[i] = ScratchMarker

\* C21 (scratch locations), as claimed: no location that check_file adds to
\* the target is a source location whose full path holds '/scratch/', at
\* whatever position.
C21_NoScratchAdded ==
    \A n \in 1..Len(calls) : \A f \in Files :
        IsTargetCall(calls[n], "addFileLocation", f)
            => \A k \in 1..Len(SrcLocs(f)) :
                  SrcLocs(f)[k].location = calls[n].location
                     => ~ContainsScratch(SrcLocs(f)[k].full_path)

\* C22 (file not locatable): when check_locations returns because the target
\* could not locate the file, it has added no location, check_file has
\* appended the file name to the --invalid file if there is one, and returns
\* failure without queueing a flag update or changing a flag in the source.
C22_NotLocatable ==
    [][/\ (InCall("cl_start") /\ Top'.pc = "cf_ret")
          => /\ ~Top'.ok
             /\ tgtLocs' = tgtLocs /\ tgtMeta' = tgtMeta /\ calls' = calls
             /\ invalidLog' = IF args.invalid THEN Append(invalidLog, Top.f) ELSE invalidLog
             /\ enqueued' = enqueued /\ queued_metadata1' = queued_metadata1
             /\ srcFlag' = srcFlag
       /\ (InCall("cf_ret") /\ ~Top.ok)
          => /\ enqueued' = enqueued /\ queued_metadata1' = queued_metadata1
             /\ srcFlag' = srcFlag /\ tgtLocs' = tgtLocs /\ calls' = calls]_vars

\* C22 witness: in a run with --invalid, the target could not locate a file
\* it holds; the file is the last line of the --invalid file, has no flag and
\* no queued update, and check_file is about to return failure.
C22_Witness ==
    /\ InCall("cf_ret")
    /\ ~Top.ok
    /\ args.invalid
    /\ invalidLog # <<>>
    /\ Last(invalidLog) = Top.f
    /\ Present(tgtMeta, Top.f)
    /\ srcFlag[Top.f] = NoFlag
    /\ Top.f \notin SeqToSet(Names(enqueued))
    /\ tgtLocs[Top.f] = <<>>

\* C23 (location migrator writes locations only): no step of
\* migrate_sam_locations.py changes the source catalog or the metadata of the
\* target; every remote write is an addFileLocation on the target, and the
\* target's locations change by such a call only.
C23_LocationsOnly ==
    [][/\ srcParents' = srcParents /\ srcRetired' = srcRetired /\ srcFlag' = srcFlag
       /\ tgtMeta' = tgtMeta
       /\ calls' = calls /\ enqueued' = enqueued
       /\ \A n \in 1..Len(lcalls') :
             lcalls'[n].db = "target" /\ lcalls'[n].op = "addFileLocation"
       /\ tgtLocs' # tgtLocs
             => /\ Len(lcalls') = Len(lcalls) + 1
                /\ tgtLocs'[lcur.f] = Append(tgtLocs[lcur.f], SrcLocs(lcur.f)[lcur.j])]_vars

\* C23 witness: the run has ended after adding locations of two files, and no
\* file has a flag.
C23_Witness ==
    /\ lpc = "done"
    /\ \E n, k \in 1..Len(lcalls) : lcalls[n].file # lcalls[k].file
    /\ \A f \in Files : srcFlag[f] = NoFlag

\* C24 (users and groups): when the run has ended, the target knows every
\* user of users1, the users it did not know before with the names and email
\* of the source, and holds for each of them every group the source holds.
C24_UsersAndGroups ==
    upc = "done"
        => \A u \in Users1(uargs) :
              /\ u \in DOMAIN tgtUsers
              /\ srcUsers[u].groups \subseteq tgtUsers[u].groups
              /\ u \notin DOMAIN tgtUsers0
                    => /\ tgtUsers[u].first_name = srcUsers[u].first_name
                       /\ tgtUsers[u].last_name = srcUsers[u].last_name
                       /\ tgtUsers[u].email = srcUsers[u].email

\* C24 witness: the run over all users has ended; u1 was created with its
\* two groups, and u2, which the target knew with group g3, has g1 as well.
C24_Witness ==
    /\ upc = "done"
    /\ uargs = NoUser
    /\ "u1" \notin DOMAIN tgtUsers0
    /\ tgtUsers["u1"].groups = {"g1", "g2"}
    /\ "u2" \in DOMAIN tgtUsers0
    /\ tgtUsers["u2"].groups = {"g1", "g3"}

IsGridCall(c, u, g) == c.op = "addgridsubject" /\ c.user = u /\ c.grid = g

\* C25 (grid subject failure): a modifyUser(addgridsubject) that fails leaves
\* the run in the grid loop of the same user with the other grid subjects
\* still to come and the target unchanged; when the run has ended, a call was
\* made for every grid subject that the source held and the target lacked.
C25_GridFailureSkipped ==
    [][/\ (/\ Len(ucalls') = Len(ucalls) + 1
           /\ Last(ucalls').op = "addgridsubject"
           /\ Last(ucalls').failed)
          => /\ upc' = "grids"
             /\ tgtUsers' = tgtUsers
             /\ utodo' = utodo
             /\ ucur'.user = ucur.user
             /\ ucur'.add_groups = ucur.add_groups
             /\ ucur'.grids1 = ucur.grids1 \ {Last(ucalls').grid}
       /\ upc' = "done"
          => \A u \in Users1(uargs') :
                \A g \in srcUsers[u].grid_subjects \
                           (IF u \in DOMAIN tgtUsers0 THEN tgtUsers0[u].grid_subjects ELSE {}) :
                    \E n \in 1..Len(ucalls') : IsGridCall(ucalls'[n], u, g)]_vars

\* C25 witness: the run has ended; after groups were added to a user, adding
\* one of its grid subjects failed, a later one succeeded, another user was
\* served afterwards, and the groups are still there.
C25_Witness ==
    /\ upc = "done"
    /\ \E j, n, k, m \in 1..Len(ucalls) :
          /\ j < n /\ n < k /\ k < m
          /\ ucalls[j].op = "addgroups"
          /\ ucalls[n].op = "addgridsubject" /\ ucalls[n].failed
          /\ ucalls[k].op = "addgridsubject" /\ ~ucalls[k].failed
          /\ ucalls[j].user = ucalls[n].user /\ ucalls[k].user = ucalls[n].user
          /\ ucalls[m].user # ucalls[n].user
          /\ ucalls[j].groups \subseteq tgtUsers[ucalls[j].user].groups

-----------------------------------------------------------------------------
\* Properties: limits of a run, the meaning of the flag, convergence.

\* C26 (limit on definitions), as claimed: with option -n N, N > 0, a run
\* creates at most N definitions in the target.
C26_AtMostNDefs ==
    dargs.ndefs > 0
        => /\ dstats.nadded <= dargs.ndefs
           /\ Len(dcalls) <= dargs.ndefs

\* C27 (limit on files), as claimed: with option -n n, n > 0, a run of at
\* most MaxIter iterations counts at most n * MaxIter migrated files.
C27_AtMostNTimesK ==
    args.nfiles > 0 => stats.nmigrated <= args.nfiles * MaxIter

\* C28 (flag 0 means migrated): a file with sbn.migrate = 0 in the source has
\* a record in the target, and each of its source locations outside scratch
\* has a target location with the same full path.
C28_FlagZeroMigrated ==
    \A f \in Files :
        srcFlag[f] = 0
            => /\ Present(tgtMeta, f)
               /\ \A k \in 1..Len(SrcLocs(f)) :
                     ~ContainsScratch(SrcLocs(f)[k].full_path)
                        => \E n \in 1..Len(tgtLocs[f]) :
                              tgtLocs[f][n].full_path = SrcLocs(f)[k].full_path

\* C28 witness: f2 has flag 0; its tape location is in the target, its
\* scratch location is not.
C28_Witness ==
    /\ srcFlag["f2"] = 0
    /\ Present(tgtMeta, "f2")
    /\ Len(tgtLocs["f2"]) = 1
    /\ tgtLocs["f2"][1].location = "enstore:/pnfs/tape"

Selected(a) == {f \in Files : a.filename \in {"", f}}
AllSettled(a, flag) == \A f \in Selected(a) : flag[f] \in {0, 2}

\* C29 (convergence): a run without option -n ends with flag 0 or 2 on every
\* file its dimension selects; a run that finds all selected files with flag
\* 0 or 2 queries nothing more and goes to the final flush without a remote
\* write, and a final flush of an empty queue writes nothing.
C29_Converges ==
    [][/\ (pc = "final" /\ pc' = "done" /\ args.nfiles = 0)
          => AllSettled(args, srcFlag')
       /\ (pc = "iter" /\ AllSettled(args, srcFlag))
          => /\ pc' = "final"
             /\ stats'.nqueried = stats.nqueried
             /\ calls' = calls /\ enqueued' = enqueued
             /\ srcFlag' = srcFlag /\ tgtMeta' = tgtMeta /\ tgtLocs' = tgtLocs
       /\ (pc = "final" /\ queued_metadata1 = <<>>)
          => /\ calls' = calls
             /\ srcFlag' = srcFlag /\ tgtMeta' = tgtMeta /\ tgtLocs' = tgtLocs]_vars

\* C29 witness: a second run over all files has ended without a query
\* result and without a remote write; the first run left flag 0 on one file
\* and flag 2 on another.
C29_Witness ==
    /\ runs = 2
    /\ pc = "done"
    /\ args.filename = "" /\ args.nfiles = 0
    /\ stats.nqueried = 0
    /\ calls = <<>>
    /\ \E f, g \in Files : srcFlag[f] = 0 /\ srcFlag[g] = 2

\* C30 (flag 0 or 2 at the read): when check_metadata reads sbn.migrate 0 or
\* 2, check_file returns in that step, without recursion and with no remote
\* write, target read or location check; it returns success for 0 and
\* failure for 2.
C30_SettledReturnsAtOnce ==
    [][(InCall("cm_start") /\ srcFlag[Top.f] \in {0, 2})
          => /\ Len(stack') = Len(stack)
             /\ Top'.pc = "cf_ret"
             /\ Top'.ok = (srcFlag[Top.f] = 0)
             /\ Top'.md2 = Top.md2 /\ Top'.locs2 = Top.locs2
             /\ calls' = calls /\ enqueued' = enqueued
             /\ queued_metadata1' = queued_metadata1
             /\ stats' = stats
             /\ srcFlag' = srcFlag /\ tgtMeta' = tgtMeta /\ tgtLocs' = tgtLocs]_vars

\* C30 witness: check_file of a parent read flag 2 and is about to return
\* failure to the parents loop of its child, with no metadata prepared, no
\* target record read and no location of the parent in the target.
C30_Witness ==
    /\ InCall("cf_ret")
    /\ Len(stack) > 1
    /\ Top.migrate = 2
    /\ ~Top.ok
    /\ srcFlag[Top.f] = 2
    /\ Top.md1 = EmptyMd
    /\ Top.md2 = EmptyMd
    /\ tgtLocs[Top.f] = <<>>

-----------------------------------------------------------------------------
\* Properties: what check_metadata writes, and where.

\* C31 (declare versus update), as claimed: declareFile is called only for a
\* file without a record in the target and modifyFileMetadata on the target
\* only for a file with one, also when samweb2.getMetadata raises an error.
C31_DeclareOnlyAbsent ==
    [][Len(calls') = Len(calls) + 1 /\ Last(calls').db = "target"
          => /\ Last(calls').op = "declareFile" => tgtMeta[Last(calls').file] = EmptyMd
             /\ Last(calls').op = "modifyFileMetadata"
                   => tgtMeta[Last(calls').file] # EmptyMd]_vars

\* C32 (declare race): nothing keeps a run from reading the target record
\* while another run is between its read and its write, and a run that read
\* the record as absent calls declareFile whatever the target holds by then;
\* so two runs can both call declareFile for the same file name.
C32_DeclareRace ==
    [][\A e \in Engines :
          /\ EngineAt(e, "cm_parents") => ENABLED EReadTarget(e)
          /\ (EngineAt(e, "cm_write") /\ engines[e].fr.md2 = EmptyMd
                 /\ engines'[e] # engines[e])
                => /\ Len(calls') = Len(calls) + 1
                   /\ Last(calls').op = "declareFile"
                   /\ Last(calls').file = engines[e].fr.f]_vars

\* C32 witness: both runs read the record of the same file as absent before
\* either wrote, and both have called declareFile for it; the second call
\* was refused.
C32_Witness ==
    /\ Len(calls) = 2
    /\ calls[1].op = "declareFile" /\ calls[2].op = "declareFile"
    /\ calls[1].file = calls[2].file
    /\ engines[1].fr.md2 = EmptyMd /\ engines[2].fr.md2 = EmptyMd
    /\ \E e \in Engines : engines[e].pc = "aborted"

IsPayloadCall(c) == c.db = "target" /\ c.op \in {"declareFile", "modifyFileMetadata"}

\* C33 (fields that never cross): no metadata sent to the target by
\* declareFile or modifyFileMetadata holds file_id, process_id, create_date,
\* update_date, update_user or sbn.migrate, none of its parent entries holds
\* file_id, and every record that holds sbn.migrate goes to the source.
C33_NoInternalKeys ==
    \A n \in 1..Len(calls) :
        IsPayloadCall(calls[n])
            => /\ DOMAIN calls[n].md \cap {"file_id", "process_id", "create_date",
                                           "update_date", "update_user", "sbn.migrate"} = {}
               /\ "parents" \in DOMAIN calls[n].md
                     => \A i \in 1..Len(calls[n].md["parents"]) :
                           "file_id" \notin DOMAIN calls[n].md["parents"][i]

\* C33 witness: a file with parents was declared and f1, which holds
\* sbn.migrate = 1 in the source, was declared or updated.
C33_Witness ==
    /\ srcFlag["f1"] = 1
    /\ \E n, k \in 1..Len(calls) :
          /\ IsPayloadCall(calls[n]) /\ calls[n].file = "f1"
          /\ calls[k].db = "target" /\ calls[k].op = "declareFile"
          /\ "parents" \in DOMAIN calls[k].md

\* C34 (writes to the source): the parent lists and the retired files of the
\* source never change; a flag changes to 0 or 2 only; every call on the
\* source is either modifyFileMetadata of the file being checked with
\* exactly sbn.migrate = 2, or a modifyMetadata whose records hold a file
\* name handed to the queue and sbn.migrate = 0 and nothing else.
C34_SourceFlagOnly ==
    [][/\ srcParents' = srcParents /\ srcRetired' = srcRetired
       /\ \A f \in Files : srcFlag'[f] # srcFlag[f] => srcFlag'[f] \in {0, 2}
       /\ (Len(calls') = Len(calls) + 1 /\ Last(calls').db = "source")
          => \/ /\ Last(calls').op = "modifyFileMetadata"
                /\ Last(calls').file = Top.f
                /\ Last(calls').md = ("sbn.migrate" :> 2)
                /\ srcFlag' = [srcFlag EXCEPT ![Top.f] = 2]
             \/ /\ Last(calls').op = "modifyMetadata"
                /\ \A i \in 1..Len(Last(calls').recs) :
                      LET rec == Last(calls').recs[i]
                      IN  /\ DOMAIN rec = {"file_name", "sbn.migrate"}
                          /\ rec["sbn.migrate"] = 0
                          /\ \E k \in 1..Len(enqueued') : enqueued'[k] = rec
                /\ \A f \in Files :
                      srcFlag'[f] # srcFlag[f]
                         => \E i \in 1..Len(Last(calls').recs) :
                               Last(calls').recs[i]["file_name"] = f]_vars

\* C34 witness: the run has written sbn.migrate = 2 at once for one file and
\* has flushed sbn.migrate = 0 for another.
C34_Witness ==
    \E n, k \in 1..Len(calls) :
        /\ calls[n].db = "source" /\ calls[n].op = "modifyFileMetadata"
        /\ srcFlag[calls[n].file] = 2
        /\ calls[k].db = "source" /\ calls[k].op = "modifyMetadata"
        /\ srcFlag[calls[k].recs[1]["file_name"]] = 0

\* what the fix-up has to make of one checksum string
IsShortMd5(c) ==
    /\ Len(c) >= 4 /\ c[1] = "m" /\ c[2] = "d" /\ c[3] = "5" /\ c[4] = ":"
    /\ Len(c) - 4 < 32
Normalized(c) ==
    IF IsShortMd5(c)
    THEN [i \in 1..36 |-> IF i <= 4 THEN c[i]
                          ELSE IF i <= 36 - (Len(c) - 4) THEN "0"
                          ELSE c[i - (36 - Len(c))]]
    ELSE c

\* C35 (checksum normalization): the fixed-up list has as many entries as
\* the list read, in the same order; an entry 'md5:<v>' with fewer than 32
\* characters in <v> has become 'md5:' and <v> behind as many '0' as make 32
\* characters, every other entry is as it was; fixing up the result again
\* changes nothing.
C35_ChecksumNormalized ==
    cksums.done
        => /\ Len(cksums.output) = Len(cksums.input)
           /\ \A i \in 1..Len(cksums.input) :
                 cksums.output[i] = Normalized(cksums.input[i])
           /\ FixChecksums(cksums.output) = cksums.output

\* C35 witness: the list read had a checksum of another kind before a short
\* md5; the fix-up ran and padded the second entry only.
C35_Witness ==
    /\ cksums.done
    /\ Len(cksums.input) = 2
    /\ cksums.input[1][1] = "a"
    /\ IsShortMd5(cksums.input[2]) /\ Len(cksums.input[2]) = 7
    /\ cksums.output[1] = cksums.input[1]
    /\ Len(cksums.output[2]) = 36
    /\ cksums.output[2][33] = "0" /\ cksums.output[2][34] = "1"

-----------------------------------------------------------------------------
\* Properties: termination, reference cycles.

\* C36 (termination of check_definition), as claimed: the run never stays
\* for ever inside extract_definitions.
C36_Terminates == dpc # "hung"

\* the definitions reached from name through 'defname:' references
DefReach(name) ==
    LET Refs(n) == IF n \in DOMAIN srcDefs
                   THEN SeqToSet(Referenced(srcDefs[n]["dimensions"]))
                   ELSE {}
        Up(S) == S \cup UNION {Refs(n) : n \in S}
    IN  Up(Up(Up(Refs(name))))

\* name is on a reference cycle, f is its own ancestor or has such an ancestor
OnDefCycle(name) == name \in DefReach(name)
ReachesFileCycle(f) == \E g \in Ancestors(f) \cup {f} : g \in Ancestors(g)

-----------------------------------------------------------------------------
\* Properties: the iteration loop, the --invalid file, repeated migration.

\* C38 (fixed point), as claimed: when the iterations of a run of
\* migrate_sam_locations.py so far have queried files and changed nothing,
\* the loop does not go through the files once more.
C38_StopsAtFixedPoint ==
    [][(lpc = "iter" /\ lstats.nqueried > 0 /\ lcalls = <<>>) => lpc' # "files"]_vars

\* C39 (the --invalid file), as claimed: at the end of a run with option
\* --invalid, every file that was given flag 2 in this run is a line of the
\* --invalid file.
C39_InvalidLogged ==
    (pc = "done" /\ args.invalid)
        => \A n \in 1..Len(calls) : \A f \in Files :
              IsFlagTwoCall(calls[n], f) => \E k \in 1..Len(invalidLog) : invalidLog[k] = f

\* C40 (no file migrated twice), as claimed: within one run no two records
\* handed to the queue name the same file, and nmigrated is the number of
\* files named.
C40_MigratedOnce ==
    /\ \A i, j \in 1..Len(enqueued) :
          i < j => enqueued[i]["file_name"] # enqueued[j]["file_name"]
    /\ stats.nmigrated = Cardinality({enqueued[i]["file_name"] : i \in 1..Len(enqueued)})

====
